---- MODULE Spec2Model ----
(***************************************************************************)
(* Model of the PPC automation core (src/optimizer_core.py): the rule      *)
(* modules BidOptimizer, DaypartingManager, CampaignManager,               *)
(* KeywordDiscovery and NegativeKeywordManager, the AuditLogger and the    *)
(* orchestrator PPCAutomation.run, over a platform that holds keywords,    *)
(* campaigns and negative keywords and serves report rows.                 *)
(*                                                                         *)
(* Units.  Money is an integer number of cents; a product bid * factor is  *)
(* an integer number of 1/100 cent before it is rounded.  Ratios and       *)
(* percentages are integers per hundred.  The code computes with IEEE      *)
(* doubles; where the double result differs from decimal arithmetic (the   *)
(* comparison abs(a - b) > 0.01 of two bids one cent apart, round(x, 2) of *)
(* a product on a decimal tie) the model follows the double result, given  *)
(* by the tables CentGapWithin and Round2 for bids below 200 cents.        *)
(*                                                                         *)
(* Identifiers.  A value read from a CSV report row is a Python str, a     *)
(* value read from a JSON body is a number; they are the tagged values     *)
(* PyStr(n) and PyNum(n), and str() / int() convert between them.          *)
(*                                                                         *)
(* Requests.  Every API method wraps AmazonAdsAPI._request in              *)
(* "except Exception" and returns a fallback ([] / None / False); the      *)
(* model draws the outcome of each call from the outcomes the method can   *)
(* produce.  _headers reads self.client_id, which AmazonAdsAPI never       *)
(* assigns, so in an unpatched instance every request ends in the          *)
(* fallback outcome; the success outcomes are those of an instance whose   *)
(* client_id attribute has been set.  A token refresh that fails calls     *)
(* sys.exit(1): SystemExit is not an Exception and leaves the method, the  *)
(* module and run (outcome "exit").                                        *)
(***************************************************************************)
EXTENDS Integers, Sequences, FiniteSets, TLC

VARIABLES
    threads,    \* workers of create_and_download_reports_parallel inside wait_if_needed
    calc,       \* one application of a pure computation: its inputs and results
    handler,    \* the cloud-function entry point run_optimizer of main.py
    first_bids, \* history: the bid of each keyword when dayparting first saw it in the process
    cfg,        \* Config values the modules read (cents)
    features,   \* features.enabled
    dry_run,    \* PPCAutomation.dry_run
    keywords,   \* platform: sequence of keyword records
    campaigns,  \* platform: sequence of campaign records
    negatives,  \* platform: sequence of negative keyword records
    reports,    \* rows the platform serves for each report type
    pc,         \* position of PPCAutomation.run
    exc,        \* exception that left the try block of run
    results,    \* run's results dict: module name -> result dict
    audit,      \* AuditLogger.entries
    saves,      \* AuditLogger.save invocations during the current run
    calls,      \* mutating API calls issued during the current run
    base_bids,  \* DaypartingManager.base_bids
    seen,       \* what each stage of the current run read from the platform
    runNo,      \* PPCAutomation instances constructed so far
    optimize_log, \* one record per BidOptimizer.optimize invocation
    env,        \* environment: which failures the platform can produce
    faults,     \* failed requests and failed token refreshes so far
    new_keywords_to_add, \* KeywordDiscovery: candidates of the current run
    negatives_to_add,    \* NegativeKeywordManager: candidates of the current run
    run_start,  \* the platform entities when the current run started
    report_outcome, \* current run: module -> outcome of its report pipeline
    now,        \* time.time(), in ticks of 1/20 second
    limiter,    \* RateLimiter: tokens, last_update_time, calls returned
    auth,       \* AmazonAdsAPI.auth: the token held and its expires_at
    http,       \* AmazonAdsAPI._request: the call in progress and its attempts
    cache,      \* AmazonAdsAPI._campaigns_cache and _ad_groups_cache
    ad_groups,  \* platform: sequence of ad group records
    poll,       \* AmazonAdsAPI.wait_for_report: the call in progress
    batch       \* AmazonAdsAPI.batch_update_keywords: the call and its requests

vars == <<calc, handler, threads, first_bids,
          cfg, features, dry_run, keywords, campaigns, negatives, reports, pc,
          exc, results, audit, saves, calls, base_bids, seen, runNo,
          optimize_log, env, faults, new_keywords_to_add, negatives_to_add,
          run_start, report_outcome, now, limiter, auth, http, cache,
          ad_groups, poll, batch>>

platform == <<keywords, campaigns, negatives>>

candidates == <<new_keywords_to_add, negatives_to_add>>

\* the state of the API client below the modules
client ==
    <<calc, handler, threads, now, limiter, auth, http, cache, ad_groups, poll,
      batch>>

\* the state of the orchestrator, its modules and the audit log
engine ==
    <<first_bids, cfg, features, dry_run, reports, pc, exc, results, audit, saves, calls,
      base_bids, seen, runNo, optimize_log, env, faults, candidates, run_start,
      report_outcome>>

----------------------------------------------------------------------------
\* Bounds of the model.

\* rows in one downloaded report
MaxRows == 2

\* requests that fail and token refreshes that fail in one execution
MaxFaults == 1

\* seconds a status request of wait_for_report can take
MaxLatency == 1

\* updates handed to one batch_update_keywords call
MaxUpdates == 250

\* the scheduled invocations considered: a run and the run after it
RunIds == {1, 2}

----------------------------------------------------------------------------
\* Defaults of Config.get in the modules (money in cents, ratios per hundred).

bid_optimization_min_clicks == 25
bid_optimization_min_spend == 500
bid_optimization_high_acos == 60
bid_optimization_low_acos == 25
bid_optimization_up_pct == 15
bid_optimization_down_pct == 20
campaign_management_acos_threshold == 45
campaign_management_min_spend == 2000
keyword_discovery_min_clicks == 5
keyword_discovery_max_acos == 40
dayparting_min_multiplier == 40
dayparting_max_multiplier == 180
negative_keywords_min_spend == 1000
negative_keywords_max_acos == 100
batch_size == 100
wait_for_report_poll_interval == 2
wait_for_report_max_poll_interval == 10

----------------------------------------------------------------------------
\* Python values.

PyStr(n) == <<"str", n>>
PyNum(n) == <<"num", n>>
\* str(x) of a number or a str
ToStr(v) == <<"str", v[2]>>
\* int(x) of a numeric str or a number
ToInt(v) == <<"num", v[2]>>

None == <<"None">>

Abs(x) == IF x < 0 THEN -x ELSE x
Min2(a, b) == IF a < b THEN a ELSE b
Max2(a, b) == IF a > b THEN a ELSE b

Range(s) == {s[i] : i \in DOMAIN s}

\* dict[key] = value
Put(f, k, v) == [x \in DOMAIN f \cup {k} |-> IF x = k THEN v ELSE f[x]]

EmptyDict == [x \in {} |-> None]

\* 1 for a request that failed or a token refresh that failed
Failed(outcome) == IF outcome = "ok" THEN 0 ELSE 1

\* Lower bids c (cents) for which the doubles c/100 and (c+1)/100 differ by
\* at most the double 0.01; for every other c below 200 the double
\* difference is 0.010000000000000002 or 0.010000000000000009.
CentGapWithin ==
    {0, 1, 2, 5, 7, 8, 10, 11, 14, 17, 20, 23, 28, 34, 40, 46, 56, 68, 81, 93,
     112, 137, 162, 187}

\* abs(a - b) > 0.01 for two 2-decimal doubles a, b given in cents
ExceedsDeadBand(a, b) ==
    \/ Abs(a - b) > 1
    \/ Abs(a - b) = 1 /\ Min2(a, b) \notin CentGapWithin

\* round(x, 2) of a double x given in 1/100 cent.  On a decimal tie the
\* double product bid * (1 + up_pct) lies below the tie for every bid below
\* 200 cents, so the tie rounds down.
Round2(x) == IF x % 100 > 50 THEN (x \div 100) + 1 ELSE x \div 100

ClampBid_lower_only(x) == Max2(cfg.min_bid * 100, x)

\* max(min_bid, min(max_bid, new_bid)), new_bid in 1/100 cent
ClampBid(x) == Max2(cfg.min_bid * 100, Min2(cfg.max_bid * 100, x))

----------------------------------------------------------------------------
\* PerformanceMetrics

\* PerformanceMetrics.acos compared with a threshold given per hundred;
\* acos is float('inf') when sales = 0
acos_above_with_sales(cost, sales, pct) == sales > 0 /\ cost * 100 > pct * sales

AcosAbove(cost, sales, pct) == IF sales > 0 THEN cost * 100 > pct * sales ELSE TRUE
acos_at_most(cost, sales, pct) == sales > 0 /\ cost * 100 <= pct * sales

AcosBelow(cost, sales, pct) == IF sales > 0 THEN cost * 100 < pct * sales ELSE FALSE

----------------------------------------------------------------------------
\* AuditLogger

AuditEntry(action_type, entity_type, entity_id, old_value, new_value, reason, dry) ==
    [action_type |-> action_type, entity_type |-> entity_type,
     entity_id |-> entity_id, old_value |-> old_value, new_value |-> new_value,
     reason |-> reason, dry_run |-> dry]

----------------------------------------------------------------------------
\* AmazonAdsAPI.get_keywords: the Keyword objects built from the JSON list

Keyword(kw) ==
    [keyword_id |-> ToStr(PyNum(kw.keywordId)),
     ad_group_id |-> ToStr(PyNum(kw.adGroupId)),
     campaign_id |-> ToStr(PyNum(kw.campaignId)),
     keyword_text |-> kw.keywordText,
     match_type |-> kw.matchType,
     bid |-> kw.bid]

get_keywords(outcome) ==
    IF outcome = "ok" THEN [i \in DOMAIN keywords |-> Keyword(keywords[i])]
    ELSE <<>>

\* {kw.keyword_id: kw for kw in keywords}: a later entry replaces an earlier
keyword_map(kws) ==
    [id \in {kws[i].keyword_id : i \in DOMAIN kws} |->
        kws[CHOOSE i \in DOMAIN kws :
                /\ kws[i].keyword_id = id
                /\ \A j \in DOMAIN kws : kws[j].keyword_id = id => j <= i]]

----------------------------------------------------------------------------
\* BidOptimizer

\* BidOptimizer._calculate_new_bid; None when no bid is proposed
calculate_new_bid(keyword, metrics) ==
    IF /\ metrics.clicks < bid_optimization_min_clicks
       /\ metrics.cost < bid_optimization_min_spend
    THEN None
    ELSE IF metrics.sales <= 0 /\ metrics.clicks >= bid_optimization_min_clicks
    THEN PyNum(Round2(ClampBid(keyword.bid * (100 - bid_optimization_down_pct))))
    ELSE IF AcosAbove(metrics.cost, metrics.sales, bid_optimization_high_acos)
    THEN PyNum(Round2(ClampBid(keyword.bid * (100 - bid_optimization_down_pct))))
    ELSE IF /\ AcosBelow(metrics.cost, metrics.sales, bid_optimization_low_acos)
            /\ metrics.sales > 0
    THEN PyNum(Round2(ClampBid(keyword.bid * (100 + bid_optimization_up_pct))))
    ELSE None

\* BidOptimizer._get_bid_change_reason
get_bid_change_reason(metrics) ==
    IF metrics.sales <= 0 THEN <<"No sales after clicks", metrics.clicks>>
    ELSE IF AcosAbove(metrics.cost, metrics.sales, bid_optimization_high_acos)
    THEN <<"High ACOS - reducing bid", metrics.cost, metrics.sales>>
    ELSE IF AcosBelow(metrics.cost, metrics.sales, bid_optimization_low_acos)
    THEN <<"Low ACOS - increasing bid", metrics.cost, metrics.sales>>
    ELSE <<"ACOS, CTR", metrics.cost, metrics.sales>>

\* "if new_bid and abs(new_bid - keyword.bid) > 0.01": None and 0.0 are falsy
bid_change_emitted(new_bid, bid) ==
    /\ new_bid # None
    /\ new_bid[2] # 0
    /\ ExceedsDeadBand(new_bid[2], bid)

optimize_start ==
    [keywords_analyzed |-> 0, bids_increased |-> 0, bids_decreased |-> 0,
     no_change |-> 0, entries |-> <<>>, keyword_updates |-> <<>>,
     raised |-> FALSE]

\* one iteration of "for idx, row in enumerate(report_data)"
optimize_row(row, kmap, acc) ==
    IF row.keywordId \notin DOMAIN kmap THEN acc
    ELSE IF row.malformed
    THEN [acc EXCEPT !.keywords_analyzed = @ + 1, !.raised = TRUE]
    ELSE LET keyword == kmap[row.keywordId]
             new_bid == calculate_new_bid(keyword, row)
         IN  IF bid_change_emitted(new_bid, keyword.bid)
             THEN [acc EXCEPT
                     !.keywords_analyzed = @ + 1,
                     !.bids_increased = IF new_bid[2] > keyword.bid THEN @ + 1 ELSE @,
                     !.bids_decreased = IF new_bid[2] > keyword.bid THEN @ ELSE @ + 1,
                     !.entries = Append(@,
                         AuditEntry("BID_UPDATE", "KEYWORD", row.keywordId,
                                    keyword.bid, new_bid[2],
                                    get_bid_change_reason(row), dry_run)),
                     !.keyword_updates = Append(@,
                         [keywordId |-> ToInt(row.keywordId), bid |-> new_bid[2]])]
             ELSE [acc EXCEPT !.keywords_analyzed = @ + 1, !.no_change = @ + 1]

RECURSIVE optimize_loop(_, _, _, _)
optimize_loop(rows, i, kmap, acc) ==
    IF i > Len(rows) \/ acc.raised THEN acc
    ELSE optimize_loop(rows, i + 1, kmap, optimize_row(rows[i], kmap, acc))


\* a result dict that reports only the changes
optimize_results_changes_only(acc, timed) ==
    [keywords_analyzed |-> acc.keywords_analyzed,
     bids_increased |-> acc.bids_increased,
     bids_decreased |-> acc.bids_decreased,
     no_change |-> 0,
     execution_time_seconds |-> timed]

\* the result dict optimize returns
optimize_results(acc, timed) ==
    [keywords_analyzed |-> acc.keywords_analyzed,
     bids_increased |-> acc.bids_increased,
     bids_decreased |-> acc.bids_decreased,
     no_change |-> acc.no_change,
     execution_time_seconds |-> timed]

\* the platform's handling of PUT /v2/sp/keywords: the items it answers with
\* code SUCCESS (their positions are in accepted) take the new bid, in order
RECURSIVE put_keywords(_, _, _, _)
put_keywords(kws, updates, accepted, i) ==
    IF i > Len(updates) THEN kws
    ELSE put_keywords(
            IF i \in accepted
            THEN [k \in DOMAIN kws |->
                    IF PyNum(kws[k].keywordId) = updates[i].keywordId
                    THEN [kws[k] EXCEPT !.bid = updates[i].bid]
                    ELSE kws[k]]
            ELSE kws,
            updates, accepted, i + 1)

----------------------------------------------------------------------------
\* CampaignManager

\* AmazonAdsAPI.get_campaigns: the Campaign objects built from the JSON list
Campaign(c) ==
    [campaign_id |-> ToStr(PyNum(c.campaignId)), state |-> c.state]

get_campaigns(outcome) ==
    IF outcome = "ok" THEN [i \in DOMAIN campaigns |-> Campaign(campaigns[i])]
    ELSE <<>>

\* {c.campaign_id: c for c in campaigns}: a later entry replaces an earlier
campaign_map(cs) ==
    [id \in {cs[i].campaign_id : i \in DOMAIN cs} |->
        cs[CHOOSE i \in DOMAIN cs :
                /\ cs[i].campaign_id = id
                /\ \A j \in DOMAIN cs : cs[j].campaign_id = id => j <= i]]

\* the platform's handling of PUT /v2/sp/campaigns/{campaign_id}
put_campaign(cs, campaign_id, state) ==
    [k \in DOMAIN cs |->
        IF ToStr(PyNum(cs[k].campaignId)) = campaign_id
        THEN [cs[k] EXCEPT !.state = state]
        ELSE cs[k]]

manage_start ==
    [campaigns_activated |-> 0, campaigns_paused |-> 0, no_change |-> 0,
     entries |-> <<>>, calls |-> <<>>, platform |-> campaigns,
     failures |-> 0, raised |-> "none"]

state_on_platform(campaign, acc) ==
    LET k == CHOOSE i \in DOMAIN acc.platform :
                ToStr(PyNum(acc.platform[i].campaignId)) = campaign.campaign_id
    IN  acc.platform[k].state

\* campaign.state: the state get_campaigns returned before the loop
campaign_state(campaign, acc) == campaign.state

\* self.api.update_campaign(campaign_id, {'state': state}) inside the loop
update_campaign(acc, campaign_id, state, outcome) ==
    IF dry_run THEN acc
    ELSE IF outcome = "exit"
    THEN [acc EXCEPT !.failures = @ + 1, !.raised = "SystemExit"]
    ELSE [acc EXCEPT
            !.failures = @ + Failed(outcome),
            !.calls = Append(@, [op |-> "update_campaign",
                                 campaign_id |-> campaign_id, state |-> state,
                                 accepted |-> outcome = "ok"]),
            !.platform = IF outcome = "ok"
                         THEN put_campaign(@, campaign_id, state) ELSE @]

\* one iteration of "for row in report_data"
manage_row(row, cmap, acc, outcome) ==
    IF row.campaignId \notin DOMAIN cmap THEN acc
    ELSE IF row.malformed THEN [acc EXCEPT !.raised = "Exception"]
    ELSE IF row.cost < campaign_management_min_spend
    THEN [acc EXCEPT !.no_change = @ + 1]
    ELSE LET campaign == cmap[row.campaignId]
             state == campaign_state(campaign, acc)
         IN  IF /\ AcosBelow(row.cost, row.sales, campaign_management_acos_threshold)
                /\ state # "enabled"
             THEN update_campaign(
                    [acc EXCEPT
                       !.campaigns_activated = @ + 1,
                       !.entries = Append(@,
                          AuditEntry("CAMPAIGN_ACTIVATE", "CAMPAIGN", row.campaignId,
                                     state, "enabled",
                                     <<"ACOS below threshold", row.cost, row.sales>>,
                                     dry_run))],
                    row.campaignId, "enabled", outcome)
             ELSE IF /\ AcosAbove(row.cost, row.sales, campaign_management_acos_threshold)
                     /\ state = "enabled"
             THEN update_campaign(
                    [acc EXCEPT
                       !.campaigns_paused = @ + 1,
                       !.entries = Append(@,
                          AuditEntry("CAMPAIGN_PAUSE", "CAMPAIGN", row.campaignId,
                                     state, "paused",
                                     <<"ACOS above threshold", row.cost, row.sales>>,
                                     dry_run))],
                    row.campaignId, "paused", outcome)
             ELSE [acc EXCEPT !.no_change = @ + 1]

RECURSIVE manage_loop(_, _, _, _, _)
manage_loop(rows, i, cmap, acc, outcomes) ==
    IF i > Len(rows) \/ acc.raised # "none" THEN acc
    ELSE manage_loop(rows, i + 1, cmap,
                     manage_row(rows[i], cmap, acc, outcomes[i]), outcomes)

\* the result dict manage_campaigns returns
manage_results(acc, timed) ==
    [campaigns_activated |-> acc.campaigns_activated,
     campaigns_paused |-> acc.campaigns_paused,
     no_change |-> acc.no_change,
     execution_time_seconds |-> timed]

----------------------------------------------------------------------------
\* Text: a str is the sequence of its characters

LowerChar(c) == IF c = "A" THEN "a" ELSE IF c = "B" THEN "b" ELSE c

\* str.lower()
Lower(t) == [i \in DOMAIN t |-> LowerChar(t[i])]

\* str.lstrip() / str.rstrip() / str.strip() of blanks
RECURSIVE LStrip(_)
LStrip(t) == IF t # <<>> /\ Head(t) = " " THEN LStrip(Tail(t)) ELSE t

RECURSIVE RStrip(_)
RStrip(t) ==
    IF t # <<>> /\ t[Len(t)] = " " THEN RStrip(SubSeq(t, 1, Len(t) - 1)) ELSE t

Strip(t) == RStrip(LStrip(t))

----------------------------------------------------------------------------
\* KeywordDiscovery

index_text_verbatim(keyword_text) == keyword_text

\* kw.keyword_text.lower() in the index of existing keywords
index_text(keyword_text) == Lower(keyword_text)

\* existing_keyword_texts
existing_keyword_texts(kws) ==
    {<<kws[i].ad_group_id, index_text(kws[i].keyword_text), kws[i].match_type>> :
        i \in DOMAIN kws}

discover_start ==
    [keywords_discovered |-> 0, entries |-> <<>>, new_keywords_to_add |-> <<>>,
     raised |-> FALSE]

\* one iteration of "for row in report_data"
discover_row(row, existing, acc) ==
    LET query == Lower(Strip(row.query))
    IN  IF query = <<>> \/ row.adGroupId = None THEN acc
        ELSE IF row.malformed THEN [acc EXCEPT !.raised = TRUE]
        ELSE IF row.clicks < keyword_discovery_min_clicks THEN acc
        ELSE IF AcosAbove(row.cost, row.sales, keyword_discovery_max_acos) THEN acc
        ELSE IF <<row.adGroupId, query, "exact">> \in existing THEN acc
        ELSE [acc EXCEPT
                !.keywords_discovered = @ + 1,
                !.new_keywords_to_add = Append(@,
                    [campaignId |-> ToInt(row.campaignId),
                     adGroupId |-> ToInt(row.adGroupId),
                     keywordText |-> query,
                     matchType |-> "exact",
                     bid |-> cfg.initial_bid]),
                !.entries = Append(@,
                    AuditEntry("KEYWORD_DISCOVERY", "KEYWORD", "NEW", <<>>, query,
                               <<"Added from search term", row.clicks, row.cost,
                                 row.sales>>, dry_run))]

RECURSIVE discover_loop(_, _, _, _)
discover_loop(rows, i, existing, acc) ==
    IF i > Len(rows) \/ acc.raised THEN acc
    ELSE discover_loop(rows, i + 1, existing, discover_row(rows[i], existing, acc))

\* the result dict discover_keywords returns
discover_results(acc, added, timed) ==
    [keywords_discovered |-> acc.keywords_discovered,
     keywords_added |-> added,
     execution_time_seconds |-> timed]

\* the keywordId the platform gives the n-th keyword created after kws
NewKeywordId(kws, n) ==
    LET ids == {kws[i].keywordId : i \in DOMAIN kws} \cup {0}
    IN  (CHOOSE m \in ids : \A x \in ids : x <= m) + n

\* the platform's handling of POST /v2/sp/keywords: the items it answers with
\* code SUCCESS (their positions are in accepted) become keywords, in order
RECURSIVE post_keywords(_, _, _, _)
post_keywords(kws, items, accepted, i) ==
    IF i > Len(items) THEN kws
    ELSE post_keywords(
            IF i \in accepted
            THEN Append(kws,
                    [keywordId |-> NewKeywordId(kws, 1),
                     adGroupId |-> items[i].adGroupId[2],
                     campaignId |-> items[i].campaignId[2],
                     keywordText |-> items[i].keywordText,
                     matchType |-> items[i].matchType,
                     bid |-> items[i].bid])
            ELSE kws,
            items, accepted, i + 1)

----------------------------------------------------------------------------
\* DaypartingManager

\* dict.get(key, default)
Get(d, k, default) == IF k \in DOMAIN d THEN d[k] ELSE default

\* dayparting.day_multipliers and dayparting.hour_multipliers of the config,
\* in tenths; a day or an hour that is not listed has the multiplier 1.0
day_multipliers == [d \in {"SUNDAY"} |-> 20]
hour_multipliers == [h \in {3, 15} |-> IF h = 3 THEN 2 ELSE 12]

\* DaypartingManager._get_multiplier, per hundred
get_multiplier(hour, day) ==
    Max2(dayparting_min_multiplier,
         Min2(dayparting_max_multiplier,
              Get(day_multipliers, day, 10) * Get(hour_multipliers, hour, 10)))

\* f"${bid:.2f}" of a bid in cents
Dollars(bid) == <<"$", bid>>

writes_bid_always(dry) == TRUE

\* "if not dry_run" before update_keyword_bid
writes_bid(dry) == ~dry

\* the bids captured in this invocation, for keywords the process had not
\* met in an earlier invocation
first_seen(known, captured) ==
    [k \in DOMAIN known \cup DOMAIN captured |->
        IF k \in DOMAIN known THEN known[k] ELSE captured[k]]

dayparting_start ==
    [keywords_updated |-> 0, entries |-> <<>>, calls |-> <<>>,
     platform |-> keywords, base_bids |-> base_bids, failures |-> 0,
     raised |-> "none"]

\* self.api.update_keyword_bid(keyword.keyword_id, new_bid) inside the loop
update_keyword_bid(acc, keyword_id, bid, outcome) ==
    IF ~writes_bid(dry_run) THEN [acc EXCEPT !.keywords_updated = @ + 1]
    ELSE IF outcome = "exit"
    THEN [acc EXCEPT !.failures = @ + 1, !.raised = "SystemExit"]
    ELSE [acc EXCEPT
            !.keywords_updated = @ + 1,
            !.failures = @ + Failed(outcome),
            !.calls = Append(@, [op |-> "update_keyword_bid",
                                 keywordId |-> ToInt(keyword_id), bid |-> bid,
                                 accepted |-> outcome = "ok"]),
            !.platform = IF outcome = "ok"
                         THEN put_keywords(@, <<[keywordId |-> ToInt(keyword_id),
                                                 bid |-> bid]>>, {1}, 1)
                         ELSE @]

\* one iteration of "for keyword in keywords"
dayparting_keyword(keyword, multiplier, when, acc, outcome) ==
    LET bases == IF keyword.keyword_id \in DOMAIN acc.base_bids THEN acc.base_bids
                 ELSE Put(acc.base_bids, keyword.keyword_id, keyword.bid)
        new_bid == Round2(ClampBid(bases[keyword.keyword_id] * multiplier))
        acc1 == [acc EXCEPT !.base_bids = bases]
    IN  IF ExceedsDeadBand(new_bid, keyword.bid)
        THEN update_keyword_bid(
               [acc1 EXCEPT !.entries = Append(@,
                   AuditEntry("DAYPARTING_ADJUSTMENT", "KEYWORD", keyword.keyword_id,
                              Dollars(keyword.bid), Dollars(new_bid),
                              <<"Dayparting", when, multiplier>>, dry_run))],
               keyword.keyword_id, new_bid, outcome)
        ELSE acc1

RECURSIVE dayparting_loop(_, _, _, _, _, _)
dayparting_loop(kws, i, multiplier, when, acc, outcomes) ==
    IF i > Len(kws) \/ acc.raised # "none" THEN acc
    ELSE dayparting_loop(kws, i + 1, multiplier, when,
            dayparting_keyword(kws[i], multiplier, when, acc, outcomes[i]),
            outcomes)

\* the result dict apply_dayparting returns when dayparting is enabled
dayparting_results(acc, hour, day) ==
    [keywords_updated |-> acc.keywords_updated, current_hour |-> hour,
     current_day |-> day, multiplier |-> get_multiplier(hour, day)]

----------------------------------------------------------------------------
\* NegativeKeywordManager

\* existing_negative_texts: the campaignId is the JSON value as received
existing_negative_texts(nks) ==
    {<<nks[i].campaignId, Lower(nks[i].keywordText)>> : i \in DOMAIN nks}

\* AmazonAdsAPI.get_negative_keywords: the JSON list as received
get_negative_keywords(outcome) ==
    IF outcome = "ok"
    THEN [i \in DOMAIN negatives |->
            [campaignId |-> PyNum(negatives[i].campaignId),
             keywordText |-> negatives[i].keywordText]]
    ELSE <<>>

negatives_start == [entries |-> <<>>, negatives_to_add |-> <<>>, raised |-> FALSE]

\* one iteration of "for row in report_data"; the row's cost and
\* attributedSales14d are read, its clicks are not
negatives_row(row, existing, acc) ==
    LET query == Lower(Strip(row.query))
    IN  IF query = <<>> \/ row.campaignId = None THEN acc
        ELSE IF row.cost < negative_keywords_min_spend THEN acc
        ELSE IF AcosBelow(row.cost, row.sales, negative_keywords_max_acos) THEN acc
        ELSE IF <<row.campaignId, query>> \in existing THEN acc
        ELSE [acc EXCEPT
                !.negatives_to_add = Append(@,
                    [campaignId |-> ToInt(row.campaignId),
                     keywordText |-> query,
                     matchType |-> "negativePhrase"]),
                !.entries = Append(@,
                    AuditEntry("NEGATIVE_KEYWORD_ADD", "NEGATIVE_KEYWORD",
                               row.campaignId, <<>>, query,
                               <<"Poor performer", row.cost, row.sales>>, dry_run))]

RECURSIVE negatives_loop(_, _, _, _)
negatives_loop(rows, i, existing, acc) ==
    IF i > Len(rows) \/ acc.raised THEN acc
    ELSE negatives_loop(rows, i + 1, existing, negatives_row(rows[i], existing, acc))

\* the platform's handling of POST /v2/sp/negativeKeywords
RECURSIVE post_negative_keywords(_, _, _, _)
post_negative_keywords(nks, items, accepted, i) ==
    IF i > Len(items) THEN nks
    ELSE post_negative_keywords(
            IF i \in accepted
            THEN Append(nks, [campaignId |-> items[i].campaignId[2],
                              keywordText |-> items[i].keywordText])
            ELSE nks,
            items, accepted, i + 1)

----------------------------------------------------------------------------
\* position of run after stage m
NextStage(m) ==
    CASE m = "bid_optimization" -> "dayparting"
      [] m = "dayparting" -> "campaign_management"
      [] m = "campaign_management" -> "keyword_discovery"
      [] m = "keyword_discovery" -> "negative_keywords"
      [] m = "negative_keywords" -> "finally"

\* the local days and hours at which a run starts
Days == {"MONDAY", "SUNDAY"}
Hours == {3, 9, 15}

Stages ==
    {"bid_optimization", "dayparting", "campaign_management",
     "keyword_discovery", "negative_keywords"}

\* outcomes of create_report + wait_for_report + download_report:
\* rows downloaded, download failed ([]), no report (None), process exit
ReportOutcomes ==
    {"ok"} \cup (IF env.requests_fail THEN {"empty", "none"} ELSE {})
           \cup (IF env.auth_fails THEN {"exit"} ELSE {})

\* outcomes of a list call: the list, the fallback [], process exit
ListOutcomes ==
    {"ok"} \cup (IF env.requests_fail THEN {"error"} ELSE {})
           \cup (IF env.auth_fails THEN {"exit"} ELSE {})

\* outcomes of a mutating call: answered by the platform, the fallback,
\* process exit
CallOutcomes ==
    {"ok"} \cup (IF env.requests_fail THEN {"error"} ELSE {})
           \cup (IF env.auth_fails THEN {"exit"} ELSE {})

\* the item positions of a batch of n items the platform may answer with
\* code SUCCESS
AcceptedSets(n) == IF env.rejects THEN SUBSET (1..n) ELSE {1..n}

\* the environment produces n more failures in this run
Fail(n) == faults + n <= MaxFaults /\ faults' = faults + n

report_data(name, outcome) == IF outcome = "ok" THEN reports[name] ELSE <<>>

\* the result dict a module initializes before it asks for its report
initial_results(m) ==
    CASE m = "bid_optimization" ->
            [keywords_analyzed |-> 0, bids_increased |-> 0, bids_decreased |-> 0,
             no_change |-> 0]
      [] m = "campaign_management" ->
            [campaigns_activated |-> 0, campaigns_paused |-> 0, no_change |-> 0]
      [] m = "keyword_discovery" ->
            [keywords_discovered |-> 0, keywords_added |-> 0]
      [] m = "negative_keywords" -> [negative_keywords_added |-> 0]

absorbs_nothing(rep) == FALSE

\* "if not report_id: return results" / "if not report_url: return results":
\* a report pipeline that ended without a report makes the module return
absorbs(rep) == rep = "none"

\* a module returned its result dict to run
StageReturns(m, result) ==
    /\ results' = Put(results, m, result)
    /\ pc' = NextStage(m)
    /\ exc' = exc

\* an exception left the module: run's except / finally take over
StageRaises(e) ==
    /\ results' = results
    /\ pc' = "finally"
    /\ exc' = e

----------------------------------------------------------------------------
\* PPCAutomation.run

\* run() up to the try block
StartRun ==
    /\ pc = "ready"
    /\ pc' = "bid_optimization"
    /\ results' = EmptyDict
    /\ exc' = "none"
    /\ saves' = 0
    /\ calls' = <<>>
    /\ seen' = EmptyDict
    /\ new_keywords_to_add' = <<>>
    /\ negatives_to_add' = <<>>
    /\ run_start' = platform
    /\ report_outcome' = EmptyDict
    /\ UNCHANGED <<cfg, features, dry_run, platform, reports, audit, base_bids,
                   runNo, optimize_log, env, faults, first_bids, client>>

\* "if '<feature>' in features" is false
SkipDisabled ==
    /\ pc \in Stages
    /\ pc \notin features
    /\ pc' = NextStage(pc)
    /\ UNCHANGED <<cfg, features, dry_run, platform, reports, exc, results,
                   audit, saves, calls, base_bids, seen, runNo, optimize_log,
                   env, faults, candidates,
                   run_start, report_outcome, first_bids, client>>

applies_updates_in_dry_run(keyword_updates) == keyword_updates # <<>>

\* "if keyword_updates and not dry_run"
applies_updates(keyword_updates) == keyword_updates # <<>> /\ ~dry_run

\* results['bid_optimization'] = self.bid_optimizer.optimize(self.dry_run)
BidOptimization ==
    /\ pc = "bid_optimization"
    /\ pc \in features
    /\ \E rep \in ReportOutcomes, gk \in ListOutcomes :
        LET rows == report_data("keywords", rep)
            kws == get_keywords(gk)
            acc == optimize_loop(rows, 1, keyword_map(kws), optimize_start)
            entry(finished, accepted) ==
                [run |-> runNo, dry_run |-> dry_run, report |-> rep,
                 listed |-> gk, rows |-> rows, keywords |-> kws,
                 decisions |-> acc.entries, updates |-> acc.keyword_updates,
                 finished |-> finished, accepted |-> accepted]
        IN
        /\ report_outcome' = Put(report_outcome, pc, rep)
        /\ IF rep \in {"none", "exit"}
           THEN /\ gk = "ok"
                /\ Fail(1)
                /\ IF ~absorbs(rep) THEN StageRaises("SystemExit")
                   ELSE StageReturns("bid_optimization",
                                     initial_results("bid_optimization"))
                /\ optimize_log' = Append(optimize_log,
                      [run |-> runNo, dry_run |-> dry_run, report |-> rep,
                       listed |-> "not called", rows |-> <<>>, keywords |-> <<>>,
                       decisions |-> <<>>, updates |-> <<>>,
                       finished |-> rep = "none", accepted |-> {}])
                /\ UNCHANGED <<keywords, audit, calls, seen>>
           ELSE IF gk = "exit"
           THEN /\ Fail(Failed(rep) + 1)
                /\ StageRaises("SystemExit")
                /\ optimize_log' = Append(optimize_log,
                      [entry(FALSE, {}) EXCEPT !.decisions = <<>>, !.updates = <<>>])
                /\ UNCHANGED <<keywords, audit, calls, seen>>
           ELSE
                /\ audit' = audit \o acc.entries
                /\ seen' = Put(seen, "bid_optimization", kws)
                /\ IF acc.raised
                   THEN /\ Fail(Failed(rep) + Failed(gk))
                        /\ StageRaises("Exception")
                        /\ optimize_log' = Append(optimize_log, entry(FALSE, {}))
                        /\ UNCHANGED <<keywords, calls>>
                   ELSE IF ~applies_updates(acc.keyword_updates)
                   THEN /\ Fail(Failed(rep) + Failed(gk))
                        /\ StageReturns("bid_optimization", optimize_results(acc, "set"))
                        /\ optimize_log' = Append(optimize_log, entry(TRUE, {}))
                        /\ UNCHANGED <<keywords, calls>>
                   ELSE \E call \in CallOutcomes,
                           accepted \in AcceptedSets(Len(acc.keyword_updates)) :
                        /\ Fail(Failed(rep) + Failed(gk) + Failed(call))
                        /\ call # "ok" => accepted = {}
                        /\ IF call = "exit"
                           THEN /\ StageRaises("SystemExit")
                                /\ UNCHANGED <<keywords, calls>>
                           ELSE /\ StageReturns("bid_optimization",
                                                optimize_results(acc, "set"))
                                /\ keywords' = put_keywords(keywords, acc.keyword_updates,
                                                            accepted, 1)
                                /\ calls' = Append(calls,
                                      [op |-> "batch_update_keywords",
                                       items |-> acc.keyword_updates,
                                       accepted |-> accepted])
                        /\ optimize_log' = Append(optimize_log,
                                                   entry(call # "exit", accepted))
    /\ UNCHANGED <<cfg, features, dry_run, campaigns, negatives, reports, saves,
                   base_bids, runNo, env, candidates,
                   run_start, first_bids, client>>

\* results['campaign_management'] = self.campaign_manager.manage_campaigns(self.dry_run)
CampaignManagement ==
    /\ pc = "campaign_management"
    /\ pc \in features
    /\ \E rep \in ReportOutcomes, gc \in ListOutcomes :
        LET rows == report_data("campaigns", rep)
            cs == get_campaigns(gc)
        IN
        /\ report_outcome' = Put(report_outcome, pc, rep)
        /\ IF rep \in {"none", "exit"}
           THEN /\ gc = "ok"
                /\ Fail(1)
                /\ IF ~absorbs(rep) THEN StageRaises("SystemExit")
                   ELSE StageReturns("campaign_management",
                                     initial_results("campaign_management"))
                /\ UNCHANGED <<campaigns, audit, calls, seen>>
           ELSE IF gc = "exit"
           THEN /\ Fail(Failed(rep) + 1)
                /\ StageRaises("SystemExit")
                /\ UNCHANGED <<campaigns, audit, calls, seen>>
           ELSE \E outcomes \in [DOMAIN rows -> CallOutcomes] :
                LET acc == manage_loop(rows, 1, campaign_map(cs), manage_start, outcomes)
                IN  /\ Fail(Failed(rep) + Failed(gc) + acc.failures)
                    /\ audit' = audit \o acc.entries
                    /\ calls' = calls \o acc.calls
                    /\ campaigns' = acc.platform
                    /\ seen' = Put(seen, "campaign_management", cs)
                    /\ IF acc.raised # "none" THEN StageRaises(acc.raised)
                       ELSE StageReturns("campaign_management",
                                         manage_results(acc, "set"))
    /\ UNCHANGED <<cfg, features, dry_run, keywords, negatives, reports, saves,
                   base_bids, runNo, optimize_log, env, candidates,
                   run_start, first_bids, client>>

\* results['keyword_discovery'] = self.keyword_discovery.discover_keywords(self.dry_run)
KeywordDiscoveryStage ==
    /\ pc = "keyword_discovery"
    /\ pc \in features
    /\ \E rep \in ReportOutcomes, gk \in ListOutcomes :
        LET rows == report_data("targets", rep)
            kws == get_keywords(gk)
            acc == discover_loop(rows, 1, existing_keyword_texts(kws), discover_start)
            n == Len(acc.new_keywords_to_add)
        IN
        /\ report_outcome' = Put(report_outcome, pc, rep)
        /\ IF rep \in {"none", "exit"}
           THEN /\ gk = "ok"
                /\ Fail(1)
                /\ IF ~absorbs(rep) THEN StageRaises("SystemExit")
                   ELSE StageReturns("keyword_discovery",
                                     initial_results("keyword_discovery"))
                /\ UNCHANGED <<keywords, audit, calls, seen, new_keywords_to_add>>
           ELSE IF gk = "exit"
           THEN /\ Fail(Failed(rep) + 1)
                /\ StageRaises("SystemExit")
                /\ UNCHANGED <<keywords, audit, calls, seen, new_keywords_to_add>>
           ELSE
                /\ audit' = audit \o acc.entries
                /\ seen' = Put(seen, "keyword_discovery", kws)
                /\ new_keywords_to_add' = acc.new_keywords_to_add
                /\ IF acc.raised
                   THEN /\ Fail(Failed(rep) + Failed(gk))
                        /\ StageRaises("Exception")
                        /\ UNCHANGED <<keywords, calls>>
                   ELSE IF n = 0 \/ dry_run
                   THEN /\ Fail(Failed(rep) + Failed(gk))
                        /\ StageReturns("keyword_discovery",
                              discover_results(acc, IF dry_run THEN n ELSE 0, "set"))
                        /\ UNCHANGED <<keywords, calls>>
                   ELSE \E call \in CallOutcomes, accepted \in AcceptedSets(n) :
                        /\ Fail(Failed(rep) + Failed(gk) + Failed(call))
                        /\ call # "ok" => accepted = {}
                        /\ IF call = "exit"
                           THEN /\ StageRaises("SystemExit")
                                /\ UNCHANGED <<keywords, calls>>
                           ELSE /\ StageReturns("keyword_discovery",
                                      discover_results(acc, Cardinality(accepted), "set"))
                                /\ keywords' = post_keywords(keywords,
                                                  acc.new_keywords_to_add, accepted, 1)
                                /\ calls' = Append(calls,
                                      [op |-> "create_keywords",
                                       items |-> acc.new_keywords_to_add,
                                       accepted |-> accepted])
    /\ UNCHANGED <<cfg, features, dry_run, campaigns, negatives, reports, saves,
                   base_bids, runNo, optimize_log, env, negatives_to_add,
                   run_start, first_bids, client>>

\* results['dayparting'] = self.dayparting.apply_dayparting(self.dry_run)
Dayparting ==
    /\ pc = "dayparting"
    /\ pc \in features
    /\ IF ~cfg.dayparting_enabled
       THEN /\ StageReturns("dayparting", EmptyDict)
            /\ UNCHANGED <<keywords, audit, calls, seen, base_bids, first_bids, faults>>
       ELSE \E hour \in Hours, day \in Days, gk \in ListOutcomes :
            LET kws == get_keywords(gk)
            IN  IF gk = "exit"
                THEN /\ Fail(1)
                     /\ StageRaises("SystemExit")
                     /\ UNCHANGED <<keywords, audit, calls, seen, base_bids, first_bids>>
                ELSE \E outcomes \in [DOMAIN kws -> CallOutcomes] :
                     LET acc == dayparting_loop(kws, 1, get_multiplier(hour, day),
                                                <<day, hour>>, dayparting_start,
                                                outcomes)
                     IN  /\ Fail(Failed(gk) + acc.failures)
                         /\ audit' = audit \o acc.entries
                         /\ calls' = calls \o acc.calls
                         /\ keywords' = acc.platform
                         /\ base_bids' = acc.base_bids
                         /\ first_bids' = first_seen(first_bids, acc.base_bids)
                         /\ seen' = Put(seen, "dayparting", kws)
                         /\ IF acc.raised # "none" THEN StageRaises(acc.raised)
                            ELSE StageReturns("dayparting",
                                              dayparting_results(acc, hour, day))
    /\ UNCHANGED <<cfg, features, dry_run, campaigns, negatives, reports, saves,
                   runNo, optimize_log, env, candidates,
                   run_start, report_outcome, client>>

\* results['negative_keywords'] = self.negative_keywords.add_negative_keywords(self.dry_run)
NegativeKeywords ==
    /\ pc = "negative_keywords"
    /\ pc \in features
    /\ \E rep \in ReportOutcomes, gn \in ListOutcomes :
        LET rows == report_data("targets", rep)
            nks == get_negative_keywords(gn)
            acc == negatives_loop(rows, 1, existing_negative_texts(nks),
                                  negatives_start)
            n == Len(acc.negatives_to_add)
        IN
        /\ report_outcome' = Put(report_outcome, pc, rep)
        /\ IF rep \in {"none", "exit"}
           THEN /\ gn = "ok"
                /\ Fail(1)
                /\ IF ~absorbs(rep) THEN StageRaises("SystemExit")
                   ELSE StageReturns("negative_keywords",
                                     initial_results("negative_keywords"))
                /\ UNCHANGED <<negatives, audit, calls, seen, negatives_to_add>>
           ELSE IF gn = "exit"
           THEN /\ Fail(Failed(rep) + 1)
                /\ StageRaises("SystemExit")
                /\ UNCHANGED <<negatives, audit, calls, seen, negatives_to_add>>
           ELSE
                /\ audit' = audit \o acc.entries
                /\ seen' = Put(seen, "negative_keywords", nks)
                /\ negatives_to_add' = acc.negatives_to_add
                /\ IF n = 0 \/ dry_run
                   THEN /\ Fail(Failed(rep) + Failed(gn))
                        /\ StageReturns("negative_keywords",
                              [negative_keywords_added |-> IF dry_run THEN n ELSE 0])
                        /\ UNCHANGED <<negatives, calls>>
                   ELSE \E call \in CallOutcomes, accepted \in AcceptedSets(n) :
                        /\ Fail(Failed(rep) + Failed(gn) + Failed(call))
                        /\ call # "ok" => accepted = {}
                        /\ IF call = "exit"
                           THEN /\ StageRaises("SystemExit")
                                /\ UNCHANGED <<negatives, calls>>
                           ELSE /\ StageReturns("negative_keywords",
                                      [negative_keywords_added |-> Cardinality(accepted)])
                                /\ negatives' = post_negative_keywords(negatives,
                                                  acc.negatives_to_add, accepted, 1)
                                /\ calls' = Append(calls,
                                      [op |-> "create_negative_keywords",
                                       items |-> acc.negatives_to_add,
                                       accepted |-> accepted])
    /\ UNCHANGED <<cfg, features, dry_run, keywords, campaigns, reports, saves,
                   base_bids, runNo, optimize_log, env, new_keywords_to_add,
                   run_start, first_bids, client>>

saves_unless_exit(e) == IF e = "SystemExit" THEN 0 ELSE 1

\* AuditLogger.save invocations of the finally clause, whatever left the try
\* block: nothing, an Exception that run caught, or SystemExit
finally_saves(e) == 1

\* "finally: self.audit.save()", then the summary and "return results", or
\* the process exit when SystemExit is passing through
Finally ==
    /\ pc = "finally"
    /\ saves' = saves + finally_saves(exc)
    /\ pc' = IF exc = "SystemExit" THEN "exited" ELSE "returned"
    /\ UNCHANGED <<cfg, features, dry_run, platform, reports, exc, results,
                   audit, calls, base_bids, seen, runNo, optimize_log, env, faults,
                   candidates,
                   run_start, report_outcome, first_bids, client>>

\* the next scheduled invocation: a new process constructs PPCAutomation
\* (new AmazonAdsAPI, AuditLogger and modules) for the same account
NewAutomation ==
    /\ pc \in {"returned", "exited"}
    /\ runNo + 1 \in RunIds
    /\ runNo' = runNo + 1
    /\ \E d \in BOOLEAN : dry_run' = d
    /\ pc' = "ready"
    /\ audit' = <<>>
    /\ base_bids' = EmptyDict
    /\ UNCHANGED <<cfg, features, platform, reports, exc, results, saves, calls,
                   seen, optimize_log, env, faults, candidates,
                   run_start, report_outcome, first_bids, client>>


----------------------------------------------------------------------------
\* Initial states: the account and the reports at the first construction of
\* PPCAutomation.

SeqsUpTo(S, n) == UNION {[1..k -> S] : k \in 0..n}

KeywordIds == {1, 2}


\* bids keywords hold on the platform before the first run (cents); the
\* platform accepts bids set by hand outside the configured range
BidValues == {20, 26, 36, 41}

\* metrics of a report row: insufficient data, no sales, ACOS 100 %, 20 %, 50 %
MetricCases ==
    {[clicks |-> 3, cost |-> 100, sales |-> 0],
     [clicks |-> 30, cost |-> 2000, sales |-> 0],
     [clicks |-> 30, cost |-> 2000, sales |-> 2000],
     [clicks |-> 30, cost |-> 2000, sales |-> 10000],
     [clicks |-> 30, cost |-> 2000, sales |-> 4000]}

\* a platform whose requests and token refreshes succeed and that may answer
\* single items of a batch with a failure code
Rejecting == [requests_fail |-> FALSE, auth_fails |-> FALSE, rejects |-> TRUE]

\* rows of the keywords report: a known or unknown keywordId, numeric fields
\* that parse or (malformed) make int() / float() raise ValueError
KeywordRows ==
    {[keywordId |-> PyStr(k), clicks |-> m.clicks, cost |-> m.cost,
      sales |-> m.sales, malformed |-> FALSE] : k \in KeywordIds, m \in MetricCases}
    \cup {[keywordId |-> PyStr(k), clicks |-> 0, cost |-> 0, sales |-> 0,
           malformed |-> TRUE] : k \in {1}}
    \cup {[keywordId |-> PyStr(9), clicks |-> 30, cost |-> 2000, sales |-> 0,
           malformed |-> FALSE]}

DefaultCfg ==
    [min_bid |-> 25, max_bid |-> 40, initial_bid |-> 35,
     dayparting_enabled |-> FALSE]

NoReports == [keywords |-> <<>>, campaigns |-> <<>>, targets |-> <<>>]

\* the API client at rest: no call in progress
IdleClock == now = 0
IdleLimiter == limiter = <<>>
IdleAuth == auth = <<>>
IdleHttp == http = <<>>
IdleCache == cache = <<>> /\ ad_groups = <<>>
IdlePoll == poll = <<>>
IdleBatch == batch = <<>>

IdleCalc == calc = <<>>

IdleHandler == handler = <<>>

IdleThreads == threads = <<>>

InitClient ==
    /\ IdleClock
    /\ IdleLimiter
    /\ IdleAuth
    /\ IdleHttp
    /\ IdleCache
    /\ IdlePoll
    /\ IdleBatch
    /\ IdleCalc
    /\ IdleHandler
    /\ IdleThreads

InitRunState ==
    /\ pc = "ready"
    /\ exc = "none"
    /\ results = EmptyDict
    /\ audit = <<>>
    /\ saves = 0
    /\ calls = <<>>
    /\ base_bids = EmptyDict
    /\ first_bids = EmptyDict
    /\ seen = EmptyDict
    /\ runNo = 1
    /\ optimize_log = <<>>
    /\ faults = 0
    /\ new_keywords_to_add = <<>>
    /\ negatives_to_add = <<>>
    /\ run_start = <<<<>>, <<>>, <<>>>>
    /\ report_outcome = EmptyDict

InitRun == InitRunState /\ InitClient

InitBid ==
    /\ InitRun
    /\ cfg = DefaultCfg
    /\ env = Rejecting
    /\ features = {"bid_optimization"}
    /\ dry_run \in BOOLEAN
    /\ \E b \in {f \in [KeywordIds -> BidValues] : f[2] \in {26, 41}} :
         keywords = [k \in 1..Cardinality(KeywordIds) |->
                       [keywordId |-> k, adGroupId |-> 1, campaignId |-> 1,
                        keywordText |-> <<"a">>, matchType |-> "broad",
                        bid |-> b[k]]]
    /\ campaigns = <<>>
    /\ negatives = <<>>
    /\ \E rows \in SeqsUpTo(KeywordRows, MaxRows) :
         reports = [NoReports EXCEPT !.keywords = rows]

NextBid == StartRun \/ BidOptimization \/ SkipDisabled \/ Finally \/ NewAutomation

SpecBid == InitBid /\ [][NextBid]_vars


----------------------------------------------------------------------------
\* Initial states for CampaignManager.manage_campaigns

CampaignIds == {1, 2}

\* a platform on which a request can fail and a token refresh can fail
Failing == [requests_fail |-> TRUE, auth_fails |-> TRUE, rejects |-> FALSE]

\* rows of the campaigns report: spend below min_spend, no sales, ACOS 20 %,
\* ACOS 100 %, ACOS 25 % on 50.00 spent, ACOS 45 %; a malformed cost; an
\* unknown campaign
CampaignRows ==
    {[campaignId |-> PyStr(c), cost |-> m[1], sales |-> m[2], malformed |-> FALSE] :
        c \in CampaignIds,
        m \in {<<500, 5000>>, <<3000, 0>>, <<3000, 15000>>, <<3000, 3000>>,
               <<5000, 20000>>, <<4500, 10000>>}}
    \cup {[campaignId |-> PyStr(1), cost |-> 0, sales |-> 0, malformed |-> TRUE],
          [campaignId |-> PyStr(9), cost |-> 3000, sales |-> 0, malformed |-> FALSE]}

InitCamp ==
    /\ InitRun
    /\ cfg = DefaultCfg
    /\ env = Failing
    /\ features = {"campaign_management"}
    /\ dry_run \in BOOLEAN
    /\ keywords = <<>>
    /\ \E st \in [CampaignIds -> {"enabled", "paused"}] :
         campaigns = [c \in 1..Cardinality(CampaignIds) |->
                        [campaignId |-> c, state |-> st[c]]]
    /\ negatives = <<>>
    /\ \E rows \in SeqsUpTo(CampaignRows, MaxRows) :
         reports = [NoReports EXCEPT !.campaigns = rows]

NextCamp ==
    StartRun \/ CampaignManagement \/ SkipDisabled \/ Finally \/ NewAutomation

SpecCamp == InitCamp /\ [][NextCamp]_vars

----------------------------------------------------------------------------
\* Initial states for KeywordDiscovery.discover_keywords

AdGroupIds == {1, 2}

\* search terms as the report spells them
Queries == {<<"a">>, <<"A">>, <<" ", "a">>, <<"b">>, <<" ">>}

\* rows of the search-term report: enough clicks and ACOS 20 %, too few
\* clicks, ACOS 100 %; a row without adGroupId; a malformed clicks value
TargetRows ==
    {[query |-> q, adGroupId |-> PyStr(g), campaignId |-> PyStr(1),
      clicks |-> 10, cost |-> 1200, sales |-> 6000, malformed |-> FALSE] :
        q \in Queries, g \in AdGroupIds}
    \cup {[query |-> <<"a">>, adGroupId |-> PyStr(1), campaignId |-> PyStr(1),
           clicks |-> m[1], cost |-> m[2], sales |-> m[3], malformed |-> FALSE] :
            m \in {<<2, 200, 1000>>, <<10, 1200, 1200>>}}
    \cup {[query |-> <<"a">>, adGroupId |-> None, campaignId |-> PyStr(1),
           clicks |-> 10, cost |-> 1200, sales |-> 6000, malformed |-> FALSE],
          [query |-> <<"a">>, adGroupId |-> PyStr(1), campaignId |-> PyStr(1),
           clicks |-> 0, cost |-> 0, sales |-> 0, malformed |-> TRUE]}

\* the keywords of the account before the run; (adGroupId, lowercased text,
\* matchType) is unique among them
ExistingKeywords ==
    {<<>>,
     <<[adGroupId |-> 1, keywordText |-> <<"A">>, matchType |-> "exact"]>>,
     <<[adGroupId |-> 1, keywordText |-> <<"a">>, matchType |-> "broad"]>>,
     <<[adGroupId |-> 2, keywordText |-> <<"a">>, matchType |-> "exact"],
       [adGroupId |-> 1, keywordText |-> <<"b">>, matchType |-> "exact"]>>}

\* max_bid lowered to 0.40 with keyword_discovery.initial_bid left at 0.75
LowCapCfg == [DefaultCfg EXCEPT !.initial_bid = 75]

InitDisc ==
    /\ InitRun
    /\ cfg \in {DefaultCfg, LowCapCfg}
    /\ env = Rejecting
    /\ features = {"keyword_discovery"}
    /\ dry_run \in BOOLEAN
    /\ \E e \in ExistingKeywords :
         keywords = [k \in DOMAIN e |->
                       [keywordId |-> k, adGroupId |-> e[k].adGroupId,
                        campaignId |-> 1, keywordText |-> e[k].keywordText,
                        matchType |-> e[k].matchType, bid |-> 30]]
    /\ campaigns = <<>>
    /\ negatives = <<>>
    /\ \E rows \in SeqsUpTo(TargetRows, MaxRows) :
         reports = [NoReports EXCEPT !.targets = rows]

NextDisc ==
    StartRun \/ KeywordDiscoveryStage \/ SkipDisabled \/ Finally \/ NewAutomation

SpecDisc == InitDisc /\ [][NextDisc]_vars

----------------------------------------------------------------------------
\* Initial states for a run of several modules: an account with two keywords,
\* two campaigns and one negative keyword

\* dayparting.enabled set
DayCfg == [DefaultCfg EXCEPT !.dayparting_enabled = TRUE]

\* a platform whose requests and token refreshes succeed
Reliable == [requests_fail |-> FALSE, auth_fails |-> FALSE, rejects |-> FALSE]

FeatureSets ==
    {Stages,
     {"dayparting", "keyword_discovery"},
     {"bid_optimization", "campaign_management", "negative_keywords"}}

AccountKeywords ==
    <<[keywordId |-> 1, adGroupId |-> 1, campaignId |-> 1,
       keywordText |-> <<"A">>, matchType |-> "exact", bid |-> 26],
      [keywordId |-> 2, adGroupId |-> 1, campaignId |-> 1,
       keywordText |-> <<"b">>, matchType |-> "broad", bid |-> 36]>>

AccountCampaigns ==
    <<[campaignId |-> 1, state |-> "enabled"],
      [campaignId |-> 2, state |-> "paused"]>>

AccountNegatives == <<[campaignId |-> 1, keywordText |-> <<"b">>]>>

KeywordRow(k, clicks, cost, sales, malformed) ==
    [keywordId |-> PyStr(k), clicks |-> clicks, cost |-> cost, sales |-> sales,
     malformed |-> malformed]

CampaignRow(c, cost, sales) ==
    [campaignId |-> PyStr(c), cost |-> cost, sales |-> sales, malformed |-> FALSE]

TargetRow(q, clicks, cost, sales) ==
    [query |-> q, adGroupId |-> PyStr(1), campaignId |-> PyStr(1),
     clicks |-> clicks, cost |-> cost, sales |-> sales, malformed |-> FALSE]

\* the reports of the account: every row well-formed, or the keywords report
\* with a clicks value that is not a number
AccountReports ==
    {[keywords |-> <<KeywordRow(1, 30, 2000, 0, FALSE),
                     KeywordRow(2, 30, 2000, 10000, FALSE)>>,
      campaigns |-> <<CampaignRow(1, 3000, 3000), CampaignRow(2, 3000, 15000)>>,
      targets |-> <<TargetRow(<<" ", "a">>, 10, 1200, 6000),
                    TargetRow(<<"b">>, 10, 1200, 6000),
                    TargetRow(<<"B">>, 10, 1200, 1200)>>],
     [keywords |-> <<KeywordRow(2, 30, 2000, 10000, FALSE),
                     KeywordRow(1, 0, 0, 0, TRUE)>>,
      campaigns |-> <<CampaignRow(2, 3000, 15000)>>,
      targets |-> <<TargetRow(<<"a">>, 10, 1200, 1200)>>]}

Init ==
    /\ InitRun
    /\ cfg \in {DefaultCfg, DayCfg}
    /\ env \in {Reliable, Failing}
    /\ features \in FeatureSets
    /\ dry_run \in BOOLEAN
    /\ keywords = AccountKeywords
    /\ campaigns = AccountCampaigns
    /\ negatives = AccountNegatives
    /\ reports \in AccountReports

Next ==
    \/ StartRun
    \/ BidOptimization
    \/ Dayparting
    \/ CampaignManagement
    \/ KeywordDiscoveryStage
    \/ NegativeKeywords
    \/ SkipDisabled
    \/ Finally
    \/ NewAutomation

Spec == Init /\ [][Next]_vars

----------------------------------------------------------------------------
\* The API client on its own: the orchestrator at rest, no module running

EngineAtRest ==
    /\ InitRunState
    /\ cfg = DefaultCfg
    /\ env = Reliable
    /\ features = {}
    /\ dry_run = FALSE
    /\ keywords = <<>>
    /\ negatives = <<>>
    /\ reports = NoReports

----------------------------------------------------------------------------
\* AmazonAdsAPI.batch_update_keywords

\* updates[i:i+batch_size], i counted from 0
batch_slice(updates, i) == SubSeq(updates, i + 1, Min2(i + batch_size, Len(updates)))

stops_after_failure(failed) == ~failed

\* the for loop goes to the next batch after "except Exception" as after a
\* request that was answered
loop_goes_on(failed) == TRUE

batch_start(updates) ==
    [pc |-> "returned", updates |-> updates, requests |-> <<>>,
     failed_requests |-> {},
     results |-> [total |-> Len(updates), success |-> 0, failed |-> 0]]

\* "for i in range(0, len(updates), batch_size)": fails holds the numbers of
\* the requests that raise, rejected the updates the platform answers with a
\* code other than SUCCESS
RECURSIVE batch_update_loop(_, _, _, _, _)
batch_update_loop(updates, i, fails, rejected, acc) ==
    IF i >= Len(updates) THEN acc
    ELSE LET b == batch_slice(updates, i)
             k == Len(acc.requests) + 1
             failed == k \in fails
             bad == Cardinality({j \in DOMAIN b : b[j] \in rejected})
             acc1 == [acc EXCEPT
                        !.requests = Append(@, b),
                        !.failed_requests = IF failed THEN @ \cup {k} ELSE @,
                        !.results.success = IF failed THEN @ ELSE @ + Len(b) - bad,
                        !.results.failed = IF failed THEN @ + Len(b) ELSE @ + bad]
         IN  IF loop_goes_on(failed)
             THEN batch_update_loop(updates, i + batch_size, fails, rejected, acc1)
             ELSE acc1

\* batch_update_keywords(updates)
BatchUpdateKeywords ==
    /\ batch # <<>>
    /\ batch.pc = "called"
    /\ \E fails \in SUBSET (1 .. (Len(batch.updates) + batch_size - 1) \div batch_size),
          rejected \in {{}, {1}} :
         batch' = batch_update_loop(batch.updates, 0, fails, rejected,
                                    batch_start(batch.updates))
    /\ UNCHANGED <<calc, handler, threads, engine,
                   platform, now, limiter, auth, http, cache, ad_groups, poll>>

\* a call with n updates, each update its position in the input
InitBatch ==
    /\ EngineAtRest
    /\ IdleCalc /\ IdleHandler /\ IdleThreads
    /\ campaigns = <<>>
    /\ IdleClock /\ IdleLimiter /\ IdleAuth /\ IdleHttp /\ IdleCache /\ IdlePoll
    /\ \E n \in 0..MaxUpdates :
         batch = [pc |-> "called", updates |-> [i \in 1..n |-> i]]

NextBatch == BatchUpdateKeywords

SpecBatch == InitBatch /\ [][NextBatch]_vars

----------------------------------------------------------------------------
\* AmazonAdsAPI.wait_for_report

\* time.time() counts in ticks
TicksPerSecond == 20

\* the 'status' of a status response: still running, the three final ones,
\* none (get_report_status fell back to {})
ReportStatuses == {"IN_PROGRESS", "SUCCESS", "FAILURE", "CANCELLED", "missing"}

\* timeout arguments, in seconds
Timeouts == {0, 5, 12}

poll_continues_at_ceiling(elapsed, timeout) == elapsed <= timeout

\* "while time.time() - start_time < timeout"
poll_continues(elapsed, timeout) == elapsed < timeout

\* min(poll_interval * 1.5, max_poll_interval), in ticks
next_poll_interval(poll_interval) ==
    Min2((poll_interval * 3) \div 2, wait_for_report_max_poll_interval * TicksPerSecond)

\* one iteration of the while loop: the status request, the tests of the
\* status and the sleep
WaitPoll ==
    /\ poll # <<>>
    /\ poll.pc = "polling"
    /\ poll_continues(now - poll.start_time, poll.timeout)
    /\ \E status \in ReportStatuses, latency \in 0..MaxLatency :
         LET asked == [poll EXCEPT
                         !.poll_times = Append(@, now - poll.start_time),
                         !.statuses = Append(@, status)]
             t == now + latency * TicksPerSecond
         IN  IF status = "SUCCESS"
             THEN /\ poll' = [asked EXCEPT !.pc = "returned", !.result = <<"location">>]
                  /\ now' = t
             ELSE IF status \in {"FAILURE", "CANCELLED"}
             THEN /\ poll' = [asked EXCEPT !.pc = "returned", !.result = None]
                  /\ now' = t
             ELSE /\ poll' = [asked EXCEPT
                                !.sleeps = Append(@, poll.poll_interval),
                                !.poll_interval = next_poll_interval(@)]
                  /\ now' = t + poll.poll_interval
    /\ UNCHANGED <<calc, handler, threads, engine,
                   platform, limiter, auth, http, cache, ad_groups, batch>>

\* the loop condition fails: "timeout after {timeout}s", return None
WaitTimeout ==
    /\ poll # <<>>
    /\ poll.pc = "polling"
    /\ ~poll_continues(now - poll.start_time, poll.timeout)
    /\ poll' = [poll EXCEPT !.pc = "returned", !.result = None, !.timed_out = TRUE]
    /\ UNCHANGED <<calc, handler, threads, engine,
                   platform, now, limiter, auth, http, cache, ad_groups, batch>>

\* wait_for_report(report_id, timeout) has taken start_time
InitWait ==
    /\ EngineAtRest
    /\ IdleCalc /\ IdleHandler /\ IdleThreads
    /\ campaigns = <<>>
    /\ IdleClock /\ IdleLimiter /\ IdleAuth /\ IdleHttp /\ IdleCache /\ IdleBatch
    /\ \E timeout \in Timeouts :
         poll = [pc |-> "polling", start_time |-> 0,
                 timeout |-> timeout * TicksPerSecond,
                 poll_interval |-> wait_for_report_poll_interval * TicksPerSecond,
                 poll_times |-> <<>>, statuses |-> <<>>, sleeps |-> <<>>,
                 result |-> <<"unset">>, timed_out |-> FALSE]

NextWait == WaitPoll \/ WaitTimeout

\* the thread that called wait_for_report keeps running
SpecWait == InitWait /\ [][NextWait]_vars /\ WF_vars(NextWait)

----------------------------------------------------------------------------
\* AmazonAdsAPI._request with Auth.is_expired, _authenticate,
\* _refresh_auth_if_needed and _headers (specification SpecReq)

\* "max_retries = 3" and "retry_delay = 1" (seconds)
max_retries == 3

retry_delay == 1

\* Auth.is_expired: the margin, in seconds, taken off expires_at
expiry_margin == 60

\* data.get("expires_in", 3600): the lifetime when the token endpoint names none
default_expires_in == 3600

\* the requests of one caller
RequestIds == {1, 2}

\* lifetimes, in seconds, that the token endpoint returns
Lifetimes == {30, default_expires_in}

\* seconds the caller lets pass between two requests
Gaps == {0, default_expires_in - expiry_margin, default_expires_in - expiry_margin + 1}

\* what session.request does: a response with a status code, or an
\* exception of requests.exceptions that is not an HTTPError
Responses == {"200", "429", "500", "400", "404", "Timeout", "ConnectionError"}

ClientErrors == {"400", "404"}

NetworkErrors == {"Timeout", "ConnectionError"}

\* the Retry-After header of a 429: absent, a number of seconds, or an HTTP date
RetryAfterHeaders ==
    { [kind |-> "absent", seconds |-> 0],
      [kind |-> "seconds", seconds |-> 5],
      [kind |-> "date", seconds |-> 0] }

\* answers of the token endpoint to _authenticate
Grants ==
    { [ok |-> FALSE, expires_in |-> 0] }
      \cup { [ok |-> TRUE, expires_in |-> l] : l \in Lifetimes }

is_expired_at_expiry(t, expires_at) == t > expires_at

\* Auth.is_expired: time.time() > self.expires_at - 60
is_expired(t, expires_at) == t > expires_at - expiry_margin * TicksPerSecond

\* _authenticate: expires_at = time.time() + int(data.get("expires_in", 3600))
authenticate(t, expires_in) ==
    [expires_at |-> t + expires_in * TicksPerSecond,
     expires_in |-> expires_in, issued_at |-> t]

in_budget_and_one_more(attempt) == attempt <= max_retries

\* "for attempt in range(max_retries)"
in_budget(attempt) == attempt < max_retries

\* "if attempt == max_retries - 1: raise"
last_attempt(attempt) == attempt = max_retries - 1

\* int(response.headers.get('Retry-After', retry_delay * (attempt + 1)))
retry_after(header, attempt) ==
    IF header.kind = "seconds" THEN header.seconds ELSE retry_delay * (attempt + 1)

new_request(id) ==
    [pc |-> "attempting", id |-> id, attempt |-> 0, log |-> <<>>,
     sleeps |-> <<>>, error |-> None]

\* the call ends with an exception
request_raises(h, e) == [h EXCEPT !.pc = "raised", !.error = <<e>>]

\* time.sleep(seconds) and the next iteration of the loop; after the last
\* iteration "raise Exception('Max retries exceeded')"
request_sleeps(h, seconds) ==
    LET slept == [h EXCEPT !.sleeps = Append(@, seconds), !.attempt = @ + 1]
    IN  IF in_budget(h.attempt + 1) THEN slept
        ELSE request_raises(slept, "Max retries exceeded")

\* a loop that would call wait_if_needed() in every iteration
limiter_taken_in_loop(l) == [l EXCEPT !.tokens = @ - 1, !.returned = @ + 1]

\* the rate limiter across one iteration of the loop: wait_if_needed() is
\* called before the loop, the loop body does not touch self.rate_limiter
limiter_in_loop(l) == l

\* one iteration of the loop of _request: _headers() refreshes the token when
\* it is expired, session.request sends the attempt, and the response is
\* returned, slept on, or raised
RequestAttempt ==
    /\ http # <<>>
    /\ http.pc = "attempting"
    /\ in_budget(http.attempt)
    /\ \E grant \in Grants, response \in Responses, header \in RetryAfterHeaders :
         LET stale == is_expired(now, auth.expires_at)
             token == IF stale THEN authenticate(now, grant.expires_in) ELSE auth
             sent == [http EXCEPT
                        !.log = Append(@, [status |-> response, at |-> now,
                                           expires_at |-> token.expires_at,
                                           expires_in |-> token.expires_in,
                                           refreshed |-> stale])]
         IN  /\ stale \/ grant = [ok |-> TRUE, expires_in |-> default_expires_in]
             /\ response = "429" \/ header.kind = "absent"
             /\ IF stale /\ ~grant.ok
                THEN \* _authenticate: sys.exit(1), no attempt is sent
                     /\ response = "200"
                     /\ http' = request_raises(http, "SystemExit")
                     /\ UNCHANGED <<auth, now>>
                ELSE /\ auth' = token
                     /\ IF response \in NetworkErrors
                        THEN \* not an HTTPError: leaves _request
                             /\ http' = request_raises(sent, response)
                             /\ UNCHANGED now
                        ELSE IF response = "429"
                        THEN IF header.kind = "date"
                             THEN \* int() of a date: ValueError leaves _request
                                  /\ http' = request_raises(sent, "ValueError")
                                  /\ UNCHANGED now
                             ELSE /\ http' = request_sleeps(sent, retry_after(header, http.attempt))
                                  /\ now' = now + retry_after(header, http.attempt) * TicksPerSecond
                        ELSE IF response = "200"
                        THEN /\ http' = [sent EXCEPT !.pc = "returned"]
                             /\ UNCHANGED now
                        ELSE \* raise_for_status: HTTPError for 4xx and 5xx alike
                             IF last_attempt(http.attempt)
                             THEN /\ http' = request_raises(sent, "HTTPError")
                                  /\ UNCHANGED now
                             ELSE /\ http' = request_sleeps(sent, retry_delay * (http.attempt + 1))
                                  /\ now' = now + retry_delay * (http.attempt + 1) * TicksPerSecond
    /\ limiter' = limiter_in_loop(limiter)
    /\ UNCHANGED <<calc, handler, threads, engine,
                   platform, cache, ad_groups, poll, batch>>

\* the caller, after a call that returned or raised an Exception, issues its
\* next request some time later
RequestAgain ==
    /\ http # <<>>
    /\ http.pc \in {"returned", "raised"}
    /\ http.error # <<"SystemExit">>
    /\ http.id + 1 \in RequestIds
    /\ \E gap \in Gaps : now' = now + gap * TicksPerSecond
    /\ http' = new_request(http.id + 1)
    /\ UNCHANGED <<calc, handler, threads, engine,
                   platform, limiter, auth, cache, ad_groups, poll, batch>>

\* the client was constructed (__init__ authenticated) and _request was entered
InitReq ==
    /\ EngineAtRest
    /\ IdleCalc /\ IdleHandler /\ IdleThreads
    /\ campaigns = <<>>
    /\ IdleClock /\ IdleLimiter /\ IdleCache /\ IdlePoll /\ IdleBatch
    /\ \E l \in Lifetimes : auth = authenticate(0, l)
    /\ http = new_request(1)

NextReq == RequestAttempt \/ RequestAgain

SpecReq == InitReq /\ [][NextReq]_vars

----------------------------------------------------------------------------
\* The campaigns cache and the ad-groups cache of AmazonAdsAPI
\* (specification SpecCache)

\* successful mutating calls of one client
MaxMutations == 2

\* what _request does inside a list or update call: answers, or raises
RequestOutcomes == {"ok", "error"}

\* what a create call meets: an id in the answer, an empty answer, an exception
CreateOutcomes == {"ok", "empty", "error"}

\* state_filter / campaign_id arguments: None, or a value
CampaignFilters == {"None", "enabled"}

AdGroupFilters == {"None", "1"}

AdGroup(ag) ==
    [ad_group_id |-> ToStr(PyNum(ag.adGroupId)),
     campaign_id |-> ToStr(PyNum(ag.campaignId))]

\* "self._campaigns_cache = None" / "self._ad_groups_cache = None"
NoCache == [present |-> FALSE, items |-> <<>>, fetched |-> 0]

\* a list kept in a cache, with the number of mutations that preceded its fetch
Cached(items, fetched) == [present |-> TRUE, items |-> items, fetched |-> fetched]

keeps_cache(c) == c

\* invalidate_campaigns_cache / invalidate_ad_groups_cache
invalidate(c) == NoCache

\* the platform's answer to GET /v2/sp/campaigns
campaigns_data(state_filter) ==
    LET keep == {i \in DOMAIN campaigns :
                    state_filter = "None" \/ campaigns[i].state = state_filter}
        F[i \in 0..Len(campaigns)] ==
            IF i = 0 THEN <<>>
            ELSE IF i \in keep THEN Append(F[i - 1], Campaign(campaigns[i]))
            ELSE F[i - 1]
    IN  F[Len(campaigns)]

\* the platform's answer to GET /v2/sp/adGroups
ad_groups_data(campaign_id) ==
    LET keep == {i \in DOMAIN ad_groups :
                    \/ campaign_id = "None"
                    \/ campaign_id = "1" /\ ad_groups[i].campaignId = 1}
        F[i \in 0..Len(ad_groups)] ==
            IF i = 0 THEN <<>>
            ELSE IF i \in keep THEN Append(F[i - 1], AdGroup(ad_groups[i]))
            ELSE F[i - 1]
    IN  F[Len(ad_groups)]

Called(op, ok, unfiltered, returned, fetched) ==
    [op |-> op, ok |-> ok, unfiltered |-> unfiltered, returned |-> returned,
     fetched |-> fetched]

\* get_campaigns(state_filter, use_cache)
GetCampaigns ==
    /\ cache # <<>>
    /\ \E state_filter \in CampaignFilters, use_cache \in BOOLEAN,
          outcome \in RequestOutcomes :
         IF use_cache /\ cache.campaigns_cache.present /\ state_filter = "None"
         THEN /\ outcome = "ok"
              /\ cache' = [cache EXCEPT
                    !.last = Called("get_campaigns", TRUE, TRUE,
                                    cache.campaigns_cache.items,
                                    cache.campaigns_cache.fetched)]
         ELSE IF outcome = "ok"
         THEN cache' = [cache EXCEPT
                    !.campaigns_cache =
                        IF state_filter = "None"
                        THEN Cached(campaigns_data(state_filter), cache.campaigns_mutations)
                        ELSE @,
                    !.last = Called("get_campaigns", TRUE, state_filter = "None",
                                    campaigns_data(state_filter),
                                    cache.campaigns_mutations)]
         ELSE cache' = [cache EXCEPT
                    !.last = Called("get_campaigns", FALSE, state_filter = "None",
                                    <<>>, cache.campaigns_mutations)]
    /\ UNCHANGED <<calc, handler, threads, engine,
                   platform, ad_groups, now, limiter, auth, http, poll, batch>>

\* update_campaign(campaign_id, {"state": state})
UpdateCampaign ==
    /\ cache # <<>>
    /\ cache.campaigns_mutations + cache.ad_groups_mutations < MaxMutations
    /\ \E k \in DOMAIN campaigns, state \in {"enabled", "paused"},
          outcome \in RequestOutcomes :
         IF outcome = "ok"
         THEN /\ campaigns' = put_campaign(campaigns,
                                  ToStr(PyNum(campaigns[k].campaignId)), state)
              /\ cache' = [cache EXCEPT
                    !.campaigns_cache = invalidate(@),
                    !.campaigns_mutations = @ + 1,
                    !.last = Called("update_campaign", TRUE, FALSE, <<>>, @.fetched)]
         ELSE /\ cache' = [cache EXCEPT
                    !.last = Called("update_campaign", FALSE, FALSE, <<>>, @.fetched)]
              /\ UNCHANGED campaigns
    /\ UNCHANGED <<calc, handler, threads, engine,
                   keywords, negatives, ad_groups, now, limiter, auth, http,
                   poll, batch>>

\* create_campaign(campaign_data): the cache is left as it is
CreateCampaign ==
    /\ cache # <<>>
    /\ cache.campaigns_mutations + cache.ad_groups_mutations < MaxMutations
    /\ \E state \in {"enabled", "paused"}, outcome \in CreateOutcomes :
         IF outcome = "ok"
         THEN /\ campaigns' = Append(campaigns,
                                  [campaignId |-> Len(campaigns) + 1, state |-> state])
              /\ cache' = [cache EXCEPT
                    !.campaigns_cache = keeps_cache(@),
                    !.campaigns_mutations = @ + 1,
                    !.last = Called("create_campaign", TRUE, FALSE, <<>>, @.fetched)]
         ELSE /\ state = "enabled"
              /\ cache' = [cache EXCEPT
                    !.last = Called("create_campaign", FALSE, FALSE, <<>>, @.fetched)]
              /\ UNCHANGED campaigns
    /\ UNCHANGED <<calc, handler, threads, engine,
                   keywords, negatives, ad_groups, now, limiter, auth, http,
                   poll, batch>>

\* get_ad_groups(campaign_id, use_cache)
GetAdGroups ==
    /\ cache # <<>>
    /\ \E campaign_id \in AdGroupFilters, use_cache \in BOOLEAN,
          outcome \in RequestOutcomes :
         IF use_cache /\ cache.ad_groups_cache.present /\ campaign_id = "None"
         THEN /\ outcome = "ok"
              /\ cache' = [cache EXCEPT
                    !.last = Called("get_ad_groups", TRUE, TRUE,
                                    cache.ad_groups_cache.items,
                                    cache.ad_groups_cache.fetched)]
         ELSE IF outcome = "ok"
         THEN cache' = [cache EXCEPT
                    !.ad_groups_cache =
                        IF campaign_id = "None"
                        THEN Cached(ad_groups_data(campaign_id), cache.ad_groups_mutations)
                        ELSE @,
                    !.last = Called("get_ad_groups", TRUE, campaign_id = "None",
                                    ad_groups_data(campaign_id),
                                    cache.ad_groups_mutations)]
         ELSE cache' = [cache EXCEPT
                    !.last = Called("get_ad_groups", FALSE, campaign_id = "None",
                                    <<>>, cache.ad_groups_mutations)]
    /\ UNCHANGED <<calc, handler, threads, engine,
                   platform, ad_groups, now, limiter, auth, http, poll, batch>>

\* create_ad_group(ad_group_data): the cache is left as it is
CreateAdGroup ==
    /\ cache # <<>>
    /\ cache.campaigns_mutations + cache.ad_groups_mutations < MaxMutations
    /\ \E k \in DOMAIN campaigns, outcome \in CreateOutcomes :
         IF outcome = "ok"
         THEN /\ ad_groups' = Append(ad_groups,
                                  [adGroupId |-> Len(ad_groups) + 1,
                                   campaignId |-> campaigns[k].campaignId])
              /\ cache' = [cache EXCEPT
                    !.ad_groups_cache = keeps_cache(@),
                    !.ad_groups_mutations = @ + 1,
                    !.last = Called("create_ad_group", TRUE, FALSE, <<>>, @.fetched)]
         ELSE /\ k = 1
              /\ cache' = [cache EXCEPT
                    !.last = Called("create_ad_group", FALSE, FALSE, <<>>, @.fetched)]
              /\ UNCHANGED ad_groups
    /\ UNCHANGED <<calc, handler, threads, engine,
                   platform, now, limiter, auth, http, poll, batch>>

\* invalidate_ad_groups_cache()
InvalidateAdGroupsCache ==
    /\ cache # <<>>
    /\ cache.ad_groups_cache.present
    /\ cache' = [cache EXCEPT
          !.ad_groups_cache = invalidate(@),
          !.last = Called("invalidate_ad_groups_cache", TRUE, FALSE, <<>>, @.fetched)]
    /\ UNCHANGED <<calc, handler, threads, engine,
                   platform, ad_groups, now, limiter, auth, http, poll, batch>>

\* a client just constructed, on an account with two campaigns and one ad group
InitCache ==
    /\ EngineAtRest
    /\ IdleCalc /\ IdleHandler /\ IdleThreads
    /\ campaigns = AccountCampaigns
    /\ ad_groups = <<[adGroupId |-> 1, campaignId |-> 1]>>
    /\ IdleClock /\ IdleLimiter /\ IdleAuth /\ IdleHttp /\ IdlePoll /\ IdleBatch
    /\ cache = [campaigns_cache |-> NoCache, ad_groups_cache |-> NoCache,
                campaigns_mutations |-> 0, ad_groups_mutations |-> 0,
                last |-> Called("__init__", TRUE, FALSE, <<>>, 0)]

NextCache ==
    \/ GetCampaigns
    \/ UpdateCampaign
    \/ CreateCampaign
    \/ GetAdGroups
    \/ CreateAdGroup
    \/ InvalidateAdGroupsCache

SpecCache == InitCache /\ [][NextCache]_vars

----------------------------------------------------------------------------
\* RateLimiter (specification SpecRate).  Tokens are counted in units of
\* 1/TicksPerSecond of a token, so that the refill of one tick is whole.

\* the clock readings explored, in ticks after the construction
MaxTime == 12

\* MAX_REQUESTS_PER_SECOND and the default of burst_size
max_per_second == 10

burst_size == 3

OneToken == TicksPerSecond

\* RateLimiter.__init__ at time t
new_limiter(t) ==
    [tokens |-> burst_size * OneToken, last_update_time |-> t, constructed |-> t,
     returned |-> 0, slept |-> 0]

\* min(self.burst_size, self.tokens + time_elapsed * self.max_per_second)
refill(tokens, time_elapsed) ==
    Min2(burst_size * OneToken, tokens + time_elapsed * max_per_second)

\* (1 - self.tokens) / self.max_per_second, in ticks
sleep_time(tokens) == (OneToken - tokens) \div max_per_second

\* wait_if_needed(): the refill, the sleep when there is less than one token,
\* and the token taken; last_update_time is the time before the sleep
WaitIfNeeded ==
    /\ limiter # <<>>
    /\ now <= MaxTime
    /\ LET tokens == refill(limiter.tokens, now - limiter.last_update_time)
           sleeps == tokens < OneToken
       IN  /\ now' = IF sleeps THEN now + sleep_time(tokens) ELSE now
           /\ limiter' = [limiter EXCEPT
                 !.tokens = (IF sleeps THEN OneToken ELSE tokens) - OneToken,
                 !.last_update_time = now,
                 !.returned = @ + 1,
                 !.slept = @ + (IF sleeps THEN sleep_time(tokens) ELSE 0)]
    /\ UNCHANGED <<calc, handler, threads, engine,
                   platform, auth, http, cache, ad_groups, poll, batch>>

\* the caller does something else between two calls
TimePasses ==
    /\ limiter # <<>>
    /\ now < MaxTime
    /\ now' = now + 1
    /\ UNCHANGED <<calc, handler, threads, engine,
                   platform, limiter, auth, http, cache, ad_groups, poll, batch>>

InitRate ==
    /\ EngineAtRest
    /\ IdleCalc /\ IdleHandler /\ IdleThreads
    /\ campaigns = <<>>
    /\ IdleClock /\ IdleAuth /\ IdleHttp /\ IdleCache /\ IdlePoll /\ IdleBatch
    /\ limiter = new_limiter(0)

NextRate == WaitIfNeeded \/ TimePasses

SpecRate == InitRate /\ [][NextRate]_vars

----------------------------------------------------------------------------
\* AmazonAdsAPI._request with its rate limiter: wait_if_needed() on entry,
\* then the attempts (specification SpecTok)

MaxCalls == 4

\* seconds the caller lets pass between two calls of _request
CallGaps == {0, 1}

\* _request is entered: self.rate_limiter.wait_if_needed() refills, sleeps
\* when there is less than one token and takes one token; then the loop starts
RequestEnters ==
    /\ limiter # <<>>
    /\ IF http = <<>> THEN TRUE
       ELSE /\ http.pc \in {"returned", "raised"}
            /\ http.error # <<"SystemExit">>
            /\ http.id < MaxCalls
    /\ \E gap \in CallGaps :
         LET current_time == IF http = <<>> THEN now ELSE now + gap * TicksPerSecond
             tokens == refill(limiter.tokens, current_time - limiter.last_update_time)
             sleeps == tokens < OneToken
         IN  /\ http = <<>> => gap = 0
             /\ now' = IF sleeps THEN current_time + sleep_time(tokens)
                       ELSE current_time
             /\ limiter' = [limiter EXCEPT
                   !.tokens = (IF sleeps THEN OneToken ELSE tokens) - OneToken,
                   !.last_update_time = current_time,
                   !.returned = @ + 1,
                   !.slept = @ + (IF sleeps THEN sleep_time(tokens) ELSE 0)]
             /\ http' = new_request(IF http = <<>> THEN 1 ELSE http.id + 1)
    /\ UNCHANGED <<calc, handler, threads, engine,
                   platform, auth, cache, ad_groups, poll, batch>>

\* the client was constructed: __init__ authenticated and built the limiter
InitTok ==
    /\ EngineAtRest
    /\ IdleCalc /\ IdleHandler /\ IdleThreads
    /\ campaigns = <<>>
    /\ IdleClock /\ IdleHttp /\ IdleCache /\ IdlePoll /\ IdleBatch
    /\ auth = authenticate(0, default_expires_in)
    /\ limiter = new_limiter(0)

NextTok == RequestEnters \/ RequestAttempt

SpecTok == InitTok /\ [][NextTok]_vars

----------------------------------------------------------------------------
\* main.py: the cloud-function entry point run_optimizer and its run-interval
\* guard (specification SpecGuard).  Invocations are handled one after
\* another in one process; they are optimization requests (neither health nor
\* verify_connection) and bigquery.enabled is false.  Timestamps are ticks of
\* the clock; an absent timestamp (None, no cache file) is the empty sequence.

MaxInvocations == 3

DEFAULT_MIN_RUN_INTERVAL_MINUTES == 120

Minute == 60 * TicksPerSecond

\* schedule.min_run_interval_minutes of the config: absent, 0, 2
IntervalSettings == {<<>>, <<0>>, <<2>>}

\* _get_min_run_interval_minutes, MIN_RUN_INTERVAL_MINUTES not set
get_min_run_interval_minutes(setting) ==
    IF setting # <<>> THEN setting[1] ELSE DEFAULT_MIN_RUN_INTERVAL_MINUTES

\* ticks between two invocations, from the end of one to the arrival of the next
Pauses == {1, 2 * Minute - 1, 2 * Minute, DEFAULT_MIN_RUN_INTERVAL_MINUTES * Minute}

\* ticks from the arrival of the request to "now_utc = datetime.utcnow()":
\* load_config, validate_credentials, DashboardClient(config)
SetupTimes == {0, 1}

\* ticks from the start of a run to its completion or failure
RunTimes == {1, Minute}

\* the earliest of the timestamps
select_earliest_timestamp(a, b) ==
    IF a \o b = <<>> THEN <<>>
    ELSE IF a = <<>> THEN b
    ELSE IF b = <<>> THEN a
    ELSE <<Min2(a[1], b[1])>>

\* _select_latest_timestamp(memory, cache)
select_latest_timestamp(a, b) ==
    IF a \o b = <<>> THEN <<>>
    ELSE IF a = <<>> THEN b
    ELSE IF b = <<>> THEN a
    ELSE <<Max2(a[1], b[1])>>

\* _write_last_run_to_cache: best effort, a failure to write is only logged
write_last_run_to_cache(file, timestamp, written) ==
    IF written THEN <<timestamp>> ELSE file

\* "elapsed < required_delta"
run_interval_enforced(now_utc, last_run_time, min_interval_minutes) ==
    /\ last_run_time # <<>>
    /\ now_utc - last_run_time[1] < min_interval_minutes * Minute

\* the start and the completion recorded for the most recent started run
LastRecorded(run) ==
    IF run = <<>> THEN <<>>
    ELSE IF run[1].completion # <<>> THEN run[1].completion
    ELSE <<run[1].start>>

\* a request arrives at the idle process
RequestArrives ==
    /\ handler # <<>>
    /\ handler.pc = "idle"
    /\ handler.invocations < MaxInvocations
    /\ \E pause \in Pauses, force \in BOOLEAN :
         /\ now' = now + pause
         /\ handler' = [handler EXCEPT
               !.pc = "arrived",
               !.invocations = @ + 1,
               !.arrived_at = now + pause,
               !.force_run = force]
    /\ UNCHANGED <<calc, threads, engine, platform, limiter, auth, http, cache,
                   ad_groups, poll, batch>>

\* run_optimizer up to the start of the run: the setup, the guard, and
\* start_run with the update of the last-run memory and cache
RunIntervalGuard ==
    /\ handler # <<>>
    /\ handler.pc = "arrived"
    /\ \E setup \in SetupTimes, loads \in BOOLEAN, written \in BOOLEAN :
         LET now_utc == now + setup
             min_interval_minutes == get_min_run_interval_minutes(handler.setting)
             last_run_time == select_latest_timestamp(handler.last_run_memory,
                                                      handler.last_run_cache)
             answered(status) ==
                 [invocation |-> handler.invocations,
                  arrived_at |-> handler.arrived_at,
                  now_utc |-> <<now_utc>>,
                  force_run |-> handler.force_run,
                  status |-> status,
                  run_started |-> status = "started",
                  last_recorded |-> LastRecorded(handler.last_started)]
         IN  /\ now' = now_utc
             /\ IF ~loads
                THEN \* load_config or validate_credentials raises
                     /\ setup = 0 /\ ~written
                     /\ handler' = [handler EXCEPT
                           !.pc = "idle",
                           !.response = <<[answered("error") EXCEPT !.now_utc = <<>>]>>]
                ELSE IF /\ ~handler.force_run
                        /\ min_interval_minutes > 0
                        /\ run_interval_enforced(now_utc, last_run_time,
                                                 min_interval_minutes)
                THEN /\ ~written
                     /\ handler' = [handler EXCEPT
                           !.pc = "idle",
                           !.response = <<answered("skipped")>>]
                ELSE handler' = [handler EXCEPT
                           !.pc = "started",
                           !.starts = @ + 1,
                           !.last_run_memory = <<now_utc>>,
                           !.last_run_cache =
                               write_last_run_to_cache(@, now_utc, written),
                           !.last_started = <<[start |-> now_utc, completion |-> <<>>]>>,
                           !.response = <<answered("started")>>]
    /\ UNCHANGED <<calc, threads, engine, platform, limiter, auth, http, cache,
                   ad_groups, poll, batch>>

\* the rest of run_optimizer: PPCAutomation.run() returns and the completion
\* is recorded, or the run raises and the handler answers with an error
RunEnds ==
    /\ handler # <<>>
    /\ handler.pc = "started"
    /\ \E took \in RunTimes, succeeds \in BOOLEAN, written \in BOOLEAN :
         /\ now' = now + took
         /\ IF succeeds
            THEN handler' = [handler EXCEPT
                    !.pc = "idle",
                    !.last_run_memory = <<now + took>>,
                    !.last_run_cache =
                        write_last_run_to_cache(@, now + took, written),
                    !.last_started = <<[@[1] EXCEPT !.completion = <<now + took>>]>>,
                    !.response = <<[@[1] EXCEPT !.status = "success"]>>]
            ELSE /\ ~written
                 /\ handler' = [handler EXCEPT
                       !.pc = "idle",
                       !.response = <<[@[1] EXCEPT !.status = "error"]>>]
    /\ UNCHANGED <<calc, threads, engine, platform, limiter, auth, http, cache,
                   ad_groups, poll, batch>>

\* the module was imported: no last run in memory, no cache file
InitGuard ==
    /\ EngineAtRest
    /\ IdleCalc /\ IdleThreads
    /\ campaigns = <<>>
    /\ IdleClock /\ IdleLimiter /\ IdleAuth /\ IdleHttp /\ IdleCache /\ IdlePoll
    /\ IdleBatch
    /\ \E setting \in IntervalSettings :
         handler = [pc |-> "idle", setting |-> setting, invocations |-> 0,
                    starts |-> 0, arrived_at |-> 0, force_run |-> FALSE,
                    last_run_memory |-> <<>>, last_run_cache |-> <<>>,
                    last_started |-> <<>>, response |-> <<>>]

NextGuard == RequestArrives \/ RunIntervalGuard \/ RunEnds

SpecGuard == InitGuard /\ [][NextGuard]_vars

----------------------------------------------------------------------------
\* acos as PerformanceMetrics and the modules compute it
\* (specification SpecAcos)

\* cost and sales of a row, in cents
MaxMoney == 10

\* float('inf')
Inf == [kind |-> "inf", num |-> 1, den |-> 0]

\* a / b on floats: a ZeroDivisionError when b is 0, the quotient otherwise
Divide(a, b) ==
    IF b = 0 THEN [kind |-> "ZeroDivisionError", num |-> a, den |-> b]
    ELSE [kind |-> "float", num |-> a, den |-> b]

acos_unguarded(cost, sales) == Divide(cost, sales)

\* PerformanceMetrics.acos
acos(cost, sales) == IF sales > 0 THEN Divide(cost, sales) ELSE Inf

\* "acos = (cost / sales) if sales > 0 else float('inf')" in manage_campaigns,
\* discover_keywords and add_negative_keywords
manage_campaigns_acos(cost, sales) == IF sales > 0 THEN Divide(cost, sales) ELSE Inf

discover_keywords_acos(cost, sales) == IF sales > 0 THEN Divide(cost, sales) ELSE Inf

add_negative_keywords_acos(cost, sales) == IF sales > 0 THEN Divide(cost, sales) ELSE Inf

\* acos > pct / 100 and acos < pct / 100 on the values above
Above(ratio, pct) == ratio.kind = "inf" \/ ratio.num * 100 > pct * ratio.den

Below(ratio, pct) == ratio.kind # "inf" /\ ratio.num * 100 < pct * ratio.den

\* the four computations on one pair of cost and sales
ComputeAcos ==
    /\ calc # <<>>
    /\ calc.pc = "given"
    /\ calc' = [calc EXCEPT
          !.pc = "computed",
          !.metrics = acos(calc.cost, calc.sales),
          !.campaigns = manage_campaigns_acos(calc.cost, calc.sales),
          !.discovery = discover_keywords_acos(calc.cost, calc.sales),
          !.negatives = add_negative_keywords_acos(calc.cost, calc.sales)]
    /\ UNCHANGED <<handler, threads, engine, platform, now, limiter, auth, http, cache,
                   ad_groups, poll, batch>>

InitAcos ==
    /\ EngineAtRest
    /\ campaigns = <<>>
    /\ IdleHandler /\ IdleThreads
    /\ IdleClock /\ IdleLimiter /\ IdleAuth /\ IdleHttp /\ IdleCache /\ IdlePoll
    /\ IdleBatch
    /\ \E cost \in 0..MaxMoney, sales \in 0..MaxMoney :
         calc = [pc |-> "given", cost |-> cost, sales |-> sales,
                 metrics |-> Inf, campaigns |-> Inf, discovery |-> Inf,
                 negatives |-> Inf]

NextAcos == ComputeAcos

SpecAcos == InitAcos /\ [][NextAcos]_vars

----------------------------------------------------------------------------
\* create_and_download_reports_parallel: the workers of the thread pool call
\* wait_for_report, whose status requests go through _request and the
\* client's one RateLimiter (specification SpecPar).  wait_if_needed is
\* followed statement by statement; a read-modify-write of self.tokens is a
\* load and a store.

\* "max_workers: int = 3"
max_workers == 3

Thread(at, current_time, time_elapsed, loaded, wake) ==
    [pc |-> at, current_time |-> current_time, time_elapsed |-> time_elapsed,
     loaded |-> loaded, wake |-> wake]

\* the statements of wait_if_needed between its entry and its return
InWaitIfNeeded ==
    {"entered", "refill_loaded", "refilled", "stamped", "sleeping", "ready",
     "consume_loaded"}

\* what the workers leave alone
beside_limiter ==
    <<calc, handler, engine, platform, auth, http, cache, ad_groups, poll, batch>>

\* executor.submit(wait_for_single_report, ...): the worker reaches
\* wait_if_needed; current_time and time_elapsed are taken
WorkerEnters(w) ==
    /\ threads[w].pc = "submitted"
    /\ threads' = [threads EXCEPT ![w] =
          Thread("entered", now, now - limiter.last_update_time, 0, 0)]
    /\ UNCHANGED <<limiter, now, beside_limiter>>

\* self.tokens = min(...): the right-hand side is evaluated
WorkerLoadsRefill(w) ==
    /\ threads[w].pc = "entered"
    /\ threads' = [threads EXCEPT ![w].pc = "refill_loaded",
                                  ![w].loaded = refill(limiter.tokens,
                                                       threads[w].time_elapsed)]
    /\ UNCHANGED <<limiter, now, beside_limiter>>

\* self.tokens = min(...): the value is stored
WorkerStoresRefill(w) ==
    /\ threads[w].pc = "refill_loaded"
    /\ limiter' = [limiter EXCEPT !.tokens = threads[w].loaded]
    /\ threads' = [threads EXCEPT ![w].pc = "refilled"]
    /\ UNCHANGED <<now, beside_limiter>>

\* self.last_update_time = current_time
WorkerStamps(w) ==
    /\ threads[w].pc = "refilled"
    /\ limiter' = [limiter EXCEPT !.last_update_time = threads[w].current_time]
    /\ threads' = [threads EXCEPT ![w].pc = "stamped"]
    /\ UNCHANGED <<now, beside_limiter>>

\* "if self.tokens < 1": sleep_time is computed and time.sleep entered
WorkerTests(w) ==
    /\ threads[w].pc = "stamped"
    /\ threads' = [threads EXCEPT
          ![w].pc = IF limiter.tokens < OneToken THEN "sleeping" ELSE "ready",
          ![w].wake = IF limiter.tokens < OneToken
                      THEN now + sleep_time(limiter.tokens) ELSE 0]
    /\ UNCHANGED <<limiter, now, beside_limiter>>

\* time.sleep returns; self.tokens = 1
WorkerWakes(w) ==
    /\ threads[w].pc = "sleeping"
    /\ now >= threads[w].wake
    /\ limiter' = [limiter EXCEPT !.tokens = OneToken]
    /\ threads' = [threads EXCEPT ![w].pc = "ready"]
    /\ UNCHANGED <<now, beside_limiter>>

\* self.tokens -= 1: the value is read
WorkerLoadsTokens(w) ==
    /\ threads[w].pc = "ready"
    /\ threads' = [threads EXCEPT ![w].pc = "consume_loaded",
                                  ![w].loaded = limiter.tokens]
    /\ UNCHANGED <<limiter, now, beside_limiter>>

\* self.tokens -= 1: the value less one token is stored; wait_if_needed returns
WorkerStoresTokens(w) ==
    /\ threads[w].pc = "consume_loaded"
    /\ limiter' = [limiter EXCEPT !.tokens = threads[w].loaded - OneToken,
                                  !.returned = @ + 1]
    /\ threads' = [threads EXCEPT ![w].pc = "returned"]
    /\ UNCHANGED <<now, beside_limiter>>

\* the clock while a worker sleeps
ClockAdvances ==
    /\ \E w \in DOMAIN threads : threads[w].pc = "sleeping" /\ now < threads[w].wake
    /\ now' = now + 1
    /\ UNCHANGED <<limiter, threads, beside_limiter>>

\* step 1 created n reports one after the other, each through _request and
\* the limiter, and step 2 submitted one worker per report
InitPar ==
    /\ EngineAtRest
    /\ campaigns = <<>>
    /\ IdleCalc /\ IdleHandler
    /\ IdleClock /\ IdleAuth /\ IdleHttp /\ IdleCache /\ IdlePoll /\ IdleBatch
    /\ \E n \in 1..max_workers :
         /\ limiter = [new_limiter(0) EXCEPT
                          !.tokens = (burst_size - n) * OneToken, !.returned = n]
         /\ threads = [w \in 1..n |-> Thread("submitted", 0, 0, 0, 0)]

NextPar ==
    \/ \E w \in DOMAIN threads : WorkerEnters(w)
    \/ \E w \in DOMAIN threads : WorkerLoadsRefill(w)
    \/ \E w \in DOMAIN threads : WorkerStoresRefill(w)
    \/ \E w \in DOMAIN threads : WorkerStamps(w)
    \/ \E w \in DOMAIN threads : WorkerTests(w)
    \/ \E w \in DOMAIN threads : WorkerWakes(w)
    \/ \E w \in DOMAIN threads : WorkerLoadsTokens(w)
    \/ \E w \in DOMAIN threads : WorkerStoresTokens(w)
    \/ ClockAdvances

SpecPar == InitPar /\ [][NextPar]_vars

----------------------------------------------------------------------------
\* BidOptimizer._calculate_new_bid and _get_bid_change_reason on one keyword
\* and one set of metrics (specification SpecRule)

\* min_bid 0.25 and the default max_bid 5.00
WideCfg == [DefaultCfg EXCEPT !.max_bid = 500]

\* current bids, below min_bid, inside the range and above the low max_bid
RuleBids == {20, 26, 36, 41, 100}

\* clicks around min_clicks, cost around min_spend; with the sales below the
\* ACOS is undefined, 15 %, 25 %, 60 %, 75 % and 300 %
RuleClicks == {24, 25, 30}

RuleCosts == {0, 300, 500, 1500, 2000}

RuleSales == {0, 500, 2000, 2500}

CalculateNewBid ==
    /\ calc # <<>>
    /\ calc.pc = "given"
    /\ calc' = [calc EXCEPT
          !.pc = "computed",
          !.new_bid = calculate_new_bid([bid |-> calc.bid], calc.metrics),
          !.reason = get_bid_change_reason(calc.metrics)]
    /\ UNCHANGED <<handler, threads, engine, platform, now, limiter, auth, http,
                   cache, ad_groups, poll, batch>>

InitRule ==
    /\ InitRunState
    /\ cfg \in {DefaultCfg, WideCfg}
    /\ env = Reliable
    /\ features = {}
    /\ dry_run = FALSE
    /\ keywords = <<>> /\ campaigns = <<>> /\ negatives = <<>>
    /\ reports = NoReports
    /\ IdleHandler /\ IdleThreads
    /\ IdleClock /\ IdleLimiter /\ IdleAuth /\ IdleHttp /\ IdleCache /\ IdlePoll
    /\ IdleBatch
    /\ \E bid \in RuleBids, clicks \in RuleClicks, cost \in RuleCosts,
          sales \in RuleSales :
         calc = [pc |-> "given", bid |-> bid,
                 metrics |-> [clicks |-> clicks, cost |-> cost, sales |-> sales],
                 new_bid |-> None, reason |-> <<"unset">>]

NextRule == CalculateNewBid

SpecRule == InitRule /\ [][NextRule]_vars

----------------------------------------------------------------------------
\* Properties of BidOptimizer.optimize (specification SpecBid)

LastOptimize == optimize_log[Len(optimize_log)]

\* run is just past an optimize call that returned
OptimizeReturned ==
    /\ pc = "dayparting"
    /\ "bid_optimization" \in DOMAIN results
    /\ optimize_log # <<>>
    /\ LastOptimize.run = runNo
    /\ LastOptimize.finished

\* ... a non-dry one in which the platform accepted every submitted update
OptimizeApplied ==
    /\ OptimizeReturned
    /\ ~LastOptimize.dry_run
    /\ LastOptimize.accepted = DOMAIN LastOptimize.updates

InBidRange(b) == cfg.min_bid <= b /\ b <= cfg.max_bid

UpdatedIds(e) == {e.updates[i].keywordId : i \in DOMAIN e.updates}

\* C1 as claimed: after optimize finishes a non-dry run in which every update
\* was accepted, every keyword of the account, changed or not, has a bid in
\* [min_bid, max_bid].
C1_EveryKeywordInRange ==
    OptimizeApplied => \A k \in DOMAIN keywords : InBidRange(keywords[k].bid)

\* C1 amended: after such a run every keyword the run submitted an update for
\* has a bid in [min_bid, max_bid] (min_bid <= max_bid in whole cents); the
\* other keywords hold the bid they held before the run.
C1_UpdatedKeywordsInRange ==
    OptimizeApplied =>
        \A k \in DOMAIN keywords :
            IF PyNum(keywords[k].keywordId) \in UpdatedIds(LastOptimize)
            THEN InBidRange(keywords[k].bid)
            ELSE \A j \in DOMAIN LastOptimize.keywords :
                    LastOptimize.keywords[j].keyword_id
                        = ToStr(PyNum(keywords[k].keywordId))
                    => keywords[k].bid = LastOptimize.keywords[j].bid

\* C1 witness: the run moved a keyword from outside the range into it and left
\* another keyword outside the range.
C1_Witness ==
    /\ OptimizeApplied
    /\ \E j \in DOMAIN LastOptimize.keywords, k \in DOMAIN keywords :
         /\ LastOptimize.keywords[j].keyword_id = ToStr(PyNum(keywords[k].keywordId))
         /\ PyNum(keywords[k].keywordId) \in UpdatedIds(LastOptimize)
         /\ ~InBidRange(LastOptimize.keywords[j].bid)
         /\ InBidRange(keywords[k].bid)
    /\ \E k \in DOMAIN keywords :
         /\ PyNum(keywords[k].keywordId) \notin UpdatedIds(LastOptimize)
         /\ ~InBidRange(keywords[k].bid)


\* C3 as claimed: a computed bid that differs from the current bid by at most
\* one cent is neither audited nor sent, so every audited bid change and every
\* bid update sent differs from the bid it replaces by more than one cent.
C3_DeadBand ==
    /\ \A i \in DOMAIN audit :
         /\ audit[i].action_type = "BID_UPDATE"
              => Abs(audit[i].new_value - audit[i].old_value) > 1
         /\ audit[i].action_type = "DAYPARTING_ADJUSTMENT"
              => Abs(audit[i].new_value[2] - audit[i].old_value[2]) > 1
    /\ \A i \in DOMAIN optimize_log : \A u \in DOMAIN optimize_log[i].updates :
         \A j \in DOMAIN optimize_log[i].keywords :
            optimize_log[i].keywords[j].keyword_id
                = ToStr(optimize_log[i].updates[u].keywordId)
            => Abs(optimize_log[i].updates[u].bid
                   - optimize_log[i].keywords[j].bid) > 1

\* the decisions of an optimize call: keyword, old bid, new bid, reason
Decisions(e) ==
    [i \in DOMAIN e.decisions |->
        <<e.decisions[i].entity_id, e.decisions[i].old_value,
          e.decisions[i].new_value, e.decisions[i].reason>>]

\* the bid keyword id holds once the updates of e, all accepted, are applied
BidAfter(e, id) ==
    LET hits == {u \in DOMAIN e.updates : ToStr(e.updates[u].keywordId) = id}
        last == CHOOSE u \in hits : \A v \in hits : v <= u
        j == CHOOSE x \in DOMAIN e.keywords : e.keywords[x].keyword_id = id
    IN  IF hits # {} THEN e.updates[last].bid ELSE e.keywords[j].bid

\* C4: the decisions of optimize are determined by the report rows, the
\* keyword state and the config.  Two calls that read the same rows and the
\* same keywords decide the same; a call after a dry run reads unchanged
\* keywords and repeats the decisions of the dry run; a call after a real run
\* whose updates were all accepted starts from the bids that run wrote.
C4_DecisionsPure ==
    \A i, j \in DOMAIN optimize_log :
        LET e1 == optimize_log[i]
            e2 == optimize_log[j]
            read(e) == e.report = "ok" /\ e.listed = "ok"
        IN  (i < j /\ read(e1) /\ read(e2)) =>
              /\ (e1.rows = e2.rows /\ e1.keywords = e2.keywords)
                    => Decisions(e1) = Decisions(e2)
              /\ (e1.dry_run /\ j = i + 1) => Decisions(e1) = Decisions(e2)
              /\ (~e1.dry_run /\ j = i + 1 /\ e1.finished
                    /\ e1.accepted = DOMAIN e1.updates)
                    => \A d \in DOMAIN e2.decisions :
                         e2.decisions[d].old_value
                            = BidAfter(e1, e2.decisions[d].entity_id)

\* C4 witness: a dry run that decided a bid change, followed by a run that
\* decided the same.
C4_Witness ==
    /\ Len(optimize_log) = 2
    /\ optimize_log[1].dry_run
    /\ optimize_log[1].decisions # <<>>
    /\ Decisions(optimize_log[1]) = Decisions(optimize_log[2])

\* a real run followed by a run whose decisions start from the changed bids
C4_RealRunReached ==
    /\ Len(optimize_log) = 2
    /\ ~optimize_log[1].dry_run
    /\ optimize_log[1].accepted = DOMAIN optimize_log[1].updates
    /\ optimize_log[2].decisions # <<>>
    /\ Decisions(optimize_log[1]) # Decisions(optimize_log[2])

----------------------------------------------------------------------------
\* Properties of CampaignManager.manage_campaigns (specification SpecCamp)

Activated(id) ==
    \/ \E i \in DOMAIN audit :
         audit[i].action_type = "CAMPAIGN_ACTIVATE" /\ audit[i].entity_id = id
    \/ \E i \in DOMAIN calls :
         /\ calls[i].op = "update_campaign"
         /\ calls[i].campaign_id = id
         /\ calls[i].state = "enabled"

Paused(id) ==
    \/ \E i \in DOMAIN audit :
         audit[i].action_type = "CAMPAIGN_PAUSE" /\ audit[i].entity_id = id
    \/ \E i \in DOMAIN calls :
         /\ calls[i].op = "update_campaign"
         /\ calls[i].campaign_id = id
         /\ calls[i].state = "paused"

\* C8: in one manage_campaigns run no campaign id receives both an activate
\* decision and a pause decision (audit entry or update_campaign call),
\* whatever the report holds and whether or not an earlier update succeeded.
C8_NeverActivateAndPause ==
    \A c \in CampaignIds : ~(Activated(PyStr(c)) /\ Paused(PyStr(c)))

\* C8 witness: the run activated a campaign, the platform applied the update,
\* and a later row of the report for the same campaign has an ACOS above the
\* threshold with enough spend; the run returned.
C8_Witness ==
    /\ pc = "keyword_discovery"
    /\ "campaign_management" \in DOMAIN results
    /\ \E i \in DOMAIN calls, r1, r2 \in DOMAIN reports.campaigns :
         /\ calls[i].op = "update_campaign"
         /\ calls[i].state = "enabled"
         /\ calls[i].accepted
         /\ r1 < r2
         /\ reports.campaigns[r1].campaignId = calls[i].campaign_id
         /\ reports.campaigns[r2].campaignId = calls[i].campaign_id
         /\ ~reports.campaigns[r2].malformed
         /\ reports.campaigns[r2].cost >= campaign_management_min_spend
         /\ AcosAbove(reports.campaigns[r2].cost, reports.campaigns[r2].sales,
                      campaign_management_acos_threshold)
         /\ \E k \in DOMAIN campaigns :
              /\ PyStr(campaigns[k].campaignId) = calls[i].campaign_id
              /\ campaigns[k].state = "enabled"

----------------------------------------------------------------------------
\* Properties of KeywordDiscovery.discover_keywords (specification SpecDisc)

\* discover_keywords of the current run got past get_keywords
Discovered == "keyword_discovery" \in DOMAIN seen

\* C9: no candidate discover_keywords emits has an ad group and a text that
\* equal, comparing text case-insensitively, those of an exact-match keyword
\* get_keywords returned.
C9_NeverProposesExisting ==
    Discovered =>
        \A c \in DOMAIN new_keywords_to_add :
            \A e \in DOMAIN seen.keyword_discovery :
                LET cand == new_keywords_to_add[c]
                    kw == seen.keyword_discovery[e]
                IN  ~ /\ kw.ad_group_id = ToStr(cand.adGroupId)
                      /\ Lower(kw.keyword_text) = Lower(cand.keywordText)
                      /\ kw.match_type = cand.matchType

\* C9 witness: the report holds a qualifying row whose query differs in case
\* from an exact-match keyword of its ad group, the run skipped it and
\* emitted another candidate.
C9_Witness ==
    /\ Discovered
    /\ new_keywords_to_add # <<>>
    /\ \E r \in DOMAIN reports.targets, e \in DOMAIN seen.keyword_discovery :
         LET row == reports.targets[r]
             kw == seen.keyword_discovery[e]
         IN  /\ ~row.malformed
             /\ row.clicks >= keyword_discovery_min_clicks
             /\ ~AcosAbove(row.cost, row.sales, keyword_discovery_max_acos)
             /\ row.adGroupId = kw.ad_group_id
             /\ kw.match_type = "exact"
             /\ kw.keyword_text # Strip(row.query)
             /\ Lower(kw.keyword_text) = Lower(Strip(row.query))

Key(ad_group_id, text, match_type) == <<ad_group_id, Lower(Strip(text)), match_type>>

\* C10 as claimed: the keywords get_keywords returned together with the
\* candidates of the run hold no two entries with the same ad group, the same
\* normalized text and the same match type.
C10_CandidatesUnique ==
    Discovered =>
        /\ \A c1, c2 \in DOMAIN new_keywords_to_add :
             c1 # c2 =>
               Key(new_keywords_to_add[c1].adGroupId[2],
                   new_keywords_to_add[c1].keywordText,
                   new_keywords_to_add[c1].matchType)
               # Key(new_keywords_to_add[c2].adGroupId[2],
                     new_keywords_to_add[c2].keywordText,
                     new_keywords_to_add[c2].matchType)
        /\ \A c \in DOMAIN new_keywords_to_add, e \in DOMAIN seen.keyword_discovery :
               Key(new_keywords_to_add[c].adGroupId[2],
                   new_keywords_to_add[c].keywordText,
                   new_keywords_to_add[c].matchType)
               # Key(seen.keyword_discovery[e].ad_group_id[2],
                     seen.keyword_discovery[e].keyword_text,
                     seen.keyword_discovery[e].match_type)

\* C2 as claimed: every bid a module sends to the platform lies in
\* [min_bid, max_bid]: the bids of a batch update, the bids written with
\* update_keyword_bid and the bid of every keyword created.
C2_EveryBidSentInRange ==
    \A i \in DOMAIN calls :
        /\ calls[i].op \in {"batch_update_keywords", "create_keywords"}
             => \A k \in DOMAIN calls[i].items : InBidRange(calls[i].items[k].bid)
        /\ calls[i].op = "update_keyword_bid" => InBidRange(calls[i].bid)

----------------------------------------------------------------------------
\* Properties of PPCAutomation.run (specification Spec)

Count(action_type) ==
    Cardinality({i \in DOMAIN audit : audit[i].action_type = action_type})

\* every decision the returned counters report has its audit entry
DecisionsLogged ==
    /\ "bid_optimization" \in DOMAIN results =>
         results.bid_optimization.bids_increased
            + results.bid_optimization.bids_decreased = Count("BID_UPDATE")
    /\ ("dayparting" \in DOMAIN results /\ DOMAIN results.dayparting # {}) =>
         results.dayparting.keywords_updated = Count("DAYPARTING_ADJUSTMENT")
    /\ "campaign_management" \in DOMAIN results =>
         /\ results.campaign_management.campaigns_activated
               = Count("CAMPAIGN_ACTIVATE")
         /\ results.campaign_management.campaigns_paused = Count("CAMPAIGN_PAUSE")
    /\ "keyword_discovery" \in DOMAIN results =>
         /\ results.keyword_discovery.keywords_discovered
               = Count("KEYWORD_DISCOVERY")
         /\ results.keyword_discovery.keywords_added = Count("KEYWORD_DISCOVERY")
    /\ "negative_keywords" \in DOMAIN results =>
         results.negative_keywords.negative_keywords_added
            = Count("NEGATIVE_KEYWORD_ADD")

\* C5: with dry_run set, no step of run issues a mutating call
\* (batch_update_keywords, update_keyword_bid, update_campaign,
\* create_keywords, create_negative_keywords), the keywords, campaigns and
\* negative keywords of the platform stay as they are, every audit entry
\* carries dry_run = true, and every decision counted in a module's result
\* has its audit entry.
C5_DryRunIssuesNoMutatingCall ==
    [][dry_run =>
         /\ calls' = <<>>
         /\ platform' = platform
         /\ \A i \in DOMAIN audit' : audit'[i].dry_run = TRUE
         /\ pc' # "ready" => DecisionsLogged']_vars

\* C5 witness: a dry run of all five modules returned; it logged bid updates,
\* dayparting adjustments, campaign changes, a discovered keyword and a
\* negative keyword, and issued no call.
C5_Witness ==
    /\ dry_run
    /\ pc = "returned"
    /\ DOMAIN results = Stages
    /\ \A t \in {"BID_UPDATE", "DAYPARTING_ADJUSTMENT", "CAMPAIGN_PAUSE",
                 "CAMPAIGN_ACTIVATE", "KEYWORD_DISCOVERY", "NEGATIVE_KEYWORD_ADD"} :
         Count(t) > 0
    /\ calls = <<>>
    /\ keywords = AccountKeywords
    /\ campaigns = AccountCampaigns
    /\ negatives = AccountNegatives

\* C6: in every execution of run, AuditLogger.save is invoked exactly once,
\* after the last module activity and before run is left: no save while a
\* module can still act, one save once run returned or the process exited,
\* whether the modules completed, a module raised, or a token refresh ended
\* the process in the middle of a module.
C6_SavedExactlyOnce ==
    /\ pc \in Stages \cup {"finally"} => saves = 0
    /\ pc \in {"returned", "exited"} => saves = 1

\* C6 witness: a failed token refresh ended the process in the middle of a
\* module that had logged a decision and issued a call; save ran once.
C6_Witness ==
    /\ pc = "exited"
    /\ exc = "SystemExit"
    /\ saves = 1
    /\ audit # <<>>
    /\ calls # <<>>
    /\ Len(audit) > Len(calls)

\* run caught an exception a module raised and saved once
C6_ExceptionReached ==
    /\ pc = "returned"
    /\ exc = "Exception"
    /\ saves = 1

\* C7 as claimed: the mapping run returns holds a result dict for every
\* module of the enabled feature set, also when a module raised.
C7_SummaryPerModule ==
    pc = "returned" => \A m \in features \cap Stages : m \in DOMAIN results

\* what the list call of stage m returns for the entities of run_start
ReadAtStart(m) ==
    IF m = "campaign_management"
    THEN [i \in DOMAIN run_start[2] |-> Campaign(run_start[2][i])]
    ELSE IF m = "negative_keywords"
    THEN [i \in DOMAIN run_start[3] |->
            [campaignId |-> PyNum(run_start[3][i].campaignId),
             keywordText |-> run_start[3][i].keywordText]]
    ELSE [i \in DOMAIN run_start[1] |-> Keyword(run_start[1][i])]

\* C17 as claimed: within one run the entity state a stage reads (keyword
\* bids, campaign states, keyword lists) is the state at the start of the
\* run, also after an earlier stage applied mutations; a list call that
\* failed reads the empty list.
C17_StagesReadRunStart ==
    \A m \in DOMAIN seen : seen[m] = <<>> \/ seen[m] = ReadAtStart(m)

\* C18: when the report pipeline of BidOptimizer, CampaignManager,
\* KeywordDiscovery or NegativeKeywordManager ends without a report
\* (create_report gave no id, wait_for_report gave no location), the module
\* returns its initialized zero-valued result dict without raising, logs no
\* audit entry, issues no mutating call and leaves the platform alone, and run
\* goes on to the next module.
C18_ReportFailureAbsorbed ==
    [][\A m \in Stages \ {"dayparting"} :
          (pc = m /\ m \in DOMAIN report_outcome' /\ report_outcome'[m] = "none")
          => /\ results' = Put(results, m, initial_results(m))
             /\ exc' = "none"
             /\ pc' = NextStage(m)
             /\ audit' = audit
             /\ calls' = calls
             /\ platform' = platform]_vars

\* C18 witness: the report pipeline of bid_optimization ended without a
\* report; the module returned its zero-valued dict, and campaign_management
\* after it in the same run decided, wrote and returned.
C18_Witness ==
    /\ pc = "returned"
    /\ "bid_optimization" \in DOMAIN report_outcome
    /\ report_outcome.bid_optimization = "none"
    /\ results.bid_optimization = initial_results("bid_optimization")
    /\ Count("BID_UPDATE") = 0
    /\ "campaign_management" \in DOMAIN results
    /\ Count("CAMPAIGN_PAUSE") > 0
    /\ \E i \in DOMAIN calls : calls[i].op = "update_campaign"

----------------------------------------------------------------------------
\* Properties of AmazonAdsAPI.batch_update_keywords (specification SpecBatch)

RECURSIVE Flatten(_)
Flatten(ss) == IF ss = <<>> THEN <<>> ELSE Head(ss) \o Flatten(Tail(ss))

\* C11: batch_update_keywords(updates) with n updates submits ceil(n/100)
\* requests, each of at most 100 items and all but the last of exactly 100,
\* that together hold every update once in input order, whichever of the
\* requests fail.
C11_BatchesOfHundred ==
    (batch # <<>> /\ batch.pc = "returned") =>
        LET n == Len(batch.updates)
            r == batch.requests
        IN  /\ Len(r) = (n + 99) \div 100
            /\ \A k \in DOMAIN r :
                 /\ Len(r[k]) >= 1
                 /\ Len(r[k]) <= 100
                 /\ k < Len(r) => Len(r[k]) = 100
            /\ Flatten(r) = batch.updates

\* C11 witness: 250 updates went out as requests of 100, 100 and 50; the
\* first request failed and the two after it were answered.
C11_Witness ==
    /\ batch # <<>>
    /\ batch.pc = "returned"
    /\ Len(batch.updates) = 250
    /\ [k \in DOMAIN batch.requests |-> Len(batch.requests[k])] = <<100, 100, 50>>
    /\ batch.failed_requests = {1}
    /\ batch.results = [total |-> 250, success |-> 150, failed |-> 100]

----------------------------------------------------------------------------
\* Properties of AmazonAdsAPI.wait_for_report (specification SpecWait)

\* C12: wait_for_report(report_id, timeout) terminates.  It starts no poll
\* once the elapsed time has reached the timeout, so it polls finitely often;
\* when the status never becomes SUCCESS, FAILURE or CANCELLED it returns
\* None; and every call returns.
C12_WaitTerminates ==
    /\ [](\A i \in DOMAIN poll.poll_times : poll.poll_times[i] < poll.timeout)
    /\ []((poll.pc = "returned"
             /\ \A i \in DOMAIN poll.statuses :
                  poll.statuses[i] \notin {"SUCCESS", "FAILURE", "CANCELLED"})
          => (poll.timed_out /\ poll.result = None
                /\ now - poll.start_time >= poll.timeout))
    /\ <>(poll.pc = "returned")

\* C12 witness: with timeout = 5 and a status that stayed IN_PROGRESS the call
\* polled at 0 s and at 2 s, slept 2 s and 3 s, and returned None at the
\* 5-second test without a third poll.
C12_Witness ==
    /\ poll.pc = "returned"
    /\ poll.timeout = 5 * TicksPerSecond
    /\ poll.statuses = <<"IN_PROGRESS", "IN_PROGRESS">>
    /\ poll.poll_times = <<0, 2 * TicksPerSecond>>
    /\ poll.sleeps = <<2 * TicksPerSecond, 3 * TicksPerSecond>>
    /\ now - poll.start_time = 5 * TicksPerSecond
    /\ poll.timed_out
    /\ poll.result = None

----------------------------------------------------------------------------
\* Properties of AmazonAdsAPI._request (specification SpecReq)

\* C13: one call of _request sends at most 3 HTTP attempts, whatever the
\* server answers, and when it sends no further attempt it has either
\* returned a successful response or raised an error.
C13_AtMostThreeAttempts ==
    /\ Len(http.log) <= 3
    /\ http.pc \in {"attempting", "returned", "raised"}
    /\ http.pc = "attempting" => (http.attempt < 3 /\ Len(http.log) = http.attempt)
    /\ http.pc = "returned" => http.log[Len(http.log)].status = "200"
    /\ http.pc = "raised" => http.error # None

\* C13 witness: a 429, a 500 and a success: the third attempt returned.
C13_Witness ==
    /\ http.pc = "returned"
    /\ [i \in DOMAIN http.log |-> http.log[i].status] = <<"429", "500", "200">>
    /\ http.sleeps = <<1, 2>>

\* C13, the other end: three 429 answers used the budget up and the call raised.
C13_BudgetUsedUp ==
    /\ http.pc = "raised"
    /\ http.error = <<"Max retries exceeded">>
    /\ [i \in DOMAIN http.log |-> http.log[i].status] = <<"429", "429", "429">>

\* C14: an attempt answered with a 4xx status other than 429 is the call's
\* last attempt: the call raises at once, without a sleep and without a
\* retry, so a call whose first answer is such a status made exactly one attempt.
C14_ClientErrorRaisesAtOnce ==
    \A i \in DOMAIN http.log :
        http.log[i].status \in ClientErrors =>
            /\ http.pc = "raised"
            /\ i = Len(http.log)
            /\ Len(http.sleeps) = i - 1

\* C15: an attempt that fails with a timeout or a connection error is retried
\* within the attempt budget: the call does not raise such an error before
\* its last attempt.
C15_NetworkFailuresRetried ==
    (/\ http.pc = "raised"
     /\ http.error[1] \in NetworkErrors) => Len(http.log) = max_retries

\* C20 as stated: every attempt is sent with a token that is not within 60 s
\* of its expiry, whatever lifetime the token endpoint returns.
C20_NoAttemptNearExpiry ==
    \A i \in DOMAIN http.log :
        http.log[i].at <= http.log[i].expires_at - expiry_margin * TicksPerSecond

\* C20 amended: before every attempt a token within 60 s of its expiry is
\* replaced; the attempt carries a token that is not within 60 s of its
\* expiry when the lifetime of that token exceeds 60 s, and otherwise the
\* token obtained for this very attempt, which has not expired.
C20_AttemptCarriesValidatedToken ==
    \A i \in DOMAIN http.log :
        LET a == http.log[i]
        IN  IF a.expires_in > expiry_margin
            THEN a.at <= a.expires_at - expiry_margin * TicksPerSecond
            ELSE /\ a.refreshed
                 /\ a.at = a.expires_at - a.expires_in * TicksPerSecond
                 /\ a.at < a.expires_at

\* C20 witness: the second request found its token within 60 s of expiry,
\* re-authenticated, and sent its attempt with a token of a full lifetime.
C20_Witness ==
    /\ http.id = 2
    /\ Len(http.log) >= 1
    /\ http.log[1].refreshed
    /\ http.log[1].expires_in = default_expires_in
    /\ http.log[1].at > 0
    /\ http.log[1].expires_at = http.log[1].at + default_expires_in * TicksPerSecond

----------------------------------------------------------------------------
\* Properties of the caches of AmazonAdsAPI (specification SpecCache)

\* C16: a successful mutating call leaves the cache of its entities empty
\* (update_campaign and create_campaign the campaigns cache, create_ad_group
\* the ad-groups cache), so an unfiltered get_campaigns / get_ad_groups never
\* returns a list that was fetched before a mutation.
C16_MutationInvalidatesCache ==
    /\ (cache.last.op \in {"update_campaign", "create_campaign"} /\ cache.last.ok)
          => ~cache.campaigns_cache.present
    /\ (cache.last.op = "create_ad_group" /\ cache.last.ok)
          => ~cache.ad_groups_cache.present
    /\ (cache.last.op = "get_campaigns" /\ cache.last.ok /\ cache.last.unfiltered)
          => cache.last.fetched = cache.campaigns_mutations
    /\ (cache.last.op = "get_ad_groups" /\ cache.last.ok /\ cache.last.unfiltered)
          => cache.last.fetched = cache.ad_groups_mutations

----------------------------------------------------------------------------
\* Properties of RateLimiter (specification SpecRate)

\* C19: the number of wait_if_needed calls that have returned within T
\* seconds of the limiter's construction is at most
\* burst_size + max_per_second * T, also when calls slept for a token.
C19_RateBounded ==
    limiter.returned * TicksPerSecond
        <= burst_size * TicksPerSecond
             + max_per_second * (now - limiter.constructed)

----------------------------------------------------------------------------
\* Properties of DaypartingManager over the runs of one process
\* (specification Spec)

\* C21: dayparting does not compound.  In every invocation of one process the
\* bid written for a keyword is round(clamp(base * multiplier)) for the bid the
\* keyword had when the process first saw it, and a stored base bid is that
\* first bid for good.
C21_DaypartingFromFirstBase ==
    /\ \A k \in DOMAIN base_bids : base_bids[k] = first_bids[k]
    /\ \A i \in DOMAIN audit :
         (audit[i].action_type = "DAYPARTING_ADJUSTMENT" /\ ~audit[i].dry_run)
            => audit[i].new_value
                 = Dollars(Round2(ClampBid(first_bids[audit[i].entity_id]
                                             * audit[i].reason[3])))

----------------------------------------------------------------------------
\* Properties of the acos computations (specification SpecAcos)

AcosSites == {"metrics", "campaigns", "discovery", "negatives"}

\* C22: for every non-negative cost and sales, acos is the +infinity sentinel
\* when sales = 0 and cost / sales when sales > 0, and computing it raises no
\* division error, in PerformanceMetrics.acos and in the three inline
\* computations; the threshold tests of the modules agree with it.
C22_AcosTotal ==
    calc.pc = "computed" =>
        /\ \A site \in AcosSites :
             /\ calc[site].kind # "ZeroDivisionError"
             /\ calc.sales = 0 <=> calc[site] = Inf
             /\ calc.sales > 0 =>
                  /\ calc[site].kind = "float"
                  /\ calc[site].num * calc.sales = calc.cost * calc[site].den
        /\ \A pct \in {25, 100} :
             /\ AcosAbove(calc.cost, calc.sales, pct) <=> Above(calc.metrics, pct)
             /\ AcosBelow(calc.cost, calc.sales, pct) <=> Below(calc.metrics, pct)

\* C22 witness: a row with cost and no sales got the sentinel at all four sites.
C22_Witness ==
    /\ calc.pc = "computed"
    /\ calc.cost > 0
    /\ calc.sales = 0
    /\ \A site \in AcosSites : calc[site] = Inf

\* C22, the other case: a row with sales got the quotient.
C22_QuotientReached ==
    /\ calc.pc = "computed"
    /\ calc.cost = 3
    /\ calc.sales = 4
    /\ calc.metrics = [kind |-> "float", num |-> 3, den |-> 4]

----------------------------------------------------------------------------
\* Properties of the workers of create_and_download_reports_parallel
\* (specification SpecPar)

\* C23: the token bucket has a single caller: at no time are two threads
\* inside the refill-and-consume sequence of the client's RateLimiter.
C23_OneThreadInLimiter ==
    Cardinality({w \in DOMAIN threads : threads[w].pc \in InWaitIfNeeded}) <= 1

----------------------------------------------------------------------------
\* Properties of BidOptimizer._calculate_new_bid (specification SpecRule)

\* a bid in 1/100 cent clamped to [min_bid, max_bid] and rounded to cents
ClampedAndRounded(x) ==
    LET clamped == IF x < cfg.min_bid * 100 THEN cfg.min_bid * 100
                   ELSE IF x > cfg.max_bid * 100 THEN cfg.max_bid * 100 ELSE x
    IN  PyNum(Round2(clamped))

\* the rule table, applied in order
RuleTable(bid, m) ==
    LET ratio == acos(m.cost, m.sales)
        down == ClampedAndRounded(bid * (100 - bid_optimization_down_pct))
        up == ClampedAndRounded(bid * (100 + bid_optimization_up_pct))
    IN  IF m.clicks < bid_optimization_min_clicks /\ m.cost < bid_optimization_min_spend
        THEN None
        ELSE IF m.sales = 0 /\ m.clicks >= bid_optimization_min_clicks THEN down
        ELSE IF Above(ratio, bid_optimization_high_acos) THEN down
        ELSE IF Below(ratio, bid_optimization_low_acos) /\ m.sales > 0 THEN up
        ELSE None

----------------------------------------------------------------------------
\* Direction and counters of BidOptimizer.optimize (specification SpecBid)

\* the decisions of the last optimize call made under a decrease rule ("No
\* sales after n clicks", "High ACOS - reducing bid") and under the increase
\* rule ("Low ACOS - increasing bid")
DecreaseDecisions ==
    {i \in DOMAIN LastOptimize.decisions :
        LastOptimize.decisions[i].reason[1]
            \in {"No sales after clicks", "High ACOS - reducing bid"}}

IncreaseDecisions ==
    {i \in DOMAIN LastOptimize.decisions :
        LastOptimize.decisions[i].reason[1] = "Low ACOS - increasing bid"}

\* C27: when optimize returns, every bid change made under a decrease rule
\* lowers the bid and is counted in bids_decreased, and every bid change made
\* under the increase rule raises the bid and is counted in bids_increased,
\* whatever the keyword's bid was before, inside [min_bid, max_bid] or not.
C27_DirectionAgreesWithRule ==
    OptimizeReturned =>
        /\ \A i \in DecreaseDecisions :
              LastOptimize.decisions[i].new_value < LastOptimize.decisions[i].old_value
        /\ \A i \in IncreaseDecisions :
              LastOptimize.decisions[i].new_value > LastOptimize.decisions[i].old_value
        /\ results.bid_optimization.bids_decreased = Cardinality(DecreaseDecisions)
        /\ results.bid_optimization.bids_increased = Cardinality(IncreaseDecisions)

\* the batch_update_keywords calls made so far
BatchCalls == {i \in DOMAIN calls : calls[i].op = "batch_update_keywords"}

----------------------------------------------------------------------------
\* The decisions of CampaignManager.manage_campaigns (specification SpecCamp)

\* the decision table for one row of a campaign in the given state
CampaignRule(row, state) ==
    LET ratio == acos(row.cost, row.sales)
    IN  IF row.cost < campaign_management_min_spend THEN "no change"
        ELSE IF Below(ratio, campaign_management_acos_threshold) /\ state # "enabled"
        THEN "CAMPAIGN_ACTIVATE"
        ELSE IF Above(ratio, campaign_management_acos_threshold) /\ state = "enabled"
        THEN "CAMPAIGN_PAUSE"
        ELSE "no change"

\* the table applied to the rows in order; a row of a campaign that
\* get_campaigns did not return is passed over
RECURSIVE CampaignDecisions(_, _)
CampaignDecisions(rows, cmap) ==
    IF rows = <<>> THEN <<>>
    ELSE LET row == Head(rows)
         IN  <<[entity_id |-> row.campaignId,
                decision |-> IF row.campaignId \notin DOMAIN cmap THEN "passed over"
                             ELSE CampaignRule(row, cmap[row.campaignId].state)]>>
             \o CampaignDecisions(Tail(rows), cmap)

\* manage_campaigns of the current run returned its results and the run's
\* PPCAutomation object, with its audit trail, is still the current one
ManageReturned ==
    /\ pc # "ready"
    /\ "campaign_management" \in DOMAIN results
    /\ "campaign_management" \in DOMAIN seen
    /\ "campaign_management" \in DOMAIN report_outcome

----------------------------------------------------------------------------
\* The candidates of NegativeKeywordManager.add_negative_keywords
\* (specification Spec)

\* add_negative_keywords of the current run got past get_negative_keywords
NegativesListed == pc # "ready" /\ "negative_keywords" \in DOMAIN seen

\* C26: no candidate add_negative_keywords emits has the campaign and,
\* compared case-insensitively, the text of a negative keyword that
\* get_negative_keywords returned; every candidate comes from a search-term
\* row with cost >= min_spend and ACOS >= max_acos.
C26_NeverProposesExistingNegative ==
    NegativesListed =>
        \A c \in DOMAIN negatives_to_add :
            /\ \A e \in DOMAIN seen.negative_keywords :
                  ~ /\ negatives_to_add[c].campaignId
                          = seen.negative_keywords[e].campaignId
                    /\ negatives_to_add[c].keywordText
                          = Lower(seen.negative_keywords[e].keywordText)
            /\ \E r \in DOMAIN reports.targets :
                  /\ Lower(Strip(reports.targets[r].query))
                        = negatives_to_add[c].keywordText
                  /\ reports.targets[r].cost >= negative_keywords_min_spend
                  /\ ~Below(acos(reports.targets[r].cost, reports.targets[r].sales),
                            negative_keywords_max_acos)

----------------------------------------------------------------------------
\* Rate-limiter tokens taken by _request (specification SpecTok)

\* C29: at every moment of every call of _request, whatever its attempts
\* returned, wait_if_needed() has returned (and taken a token) once for each
\* call entered so far: once before the first attempt of the call, and not
\* again for its second and third attempts.
C29_OneTokenPerCall ==
    limiter.returned = IF http = <<>> THEN 0 ELSE http.id

\* C29 witness: the second call made three attempts, the first answered 429
\* and the second 500, and two tokens had been taken.
C29_Witness ==
    /\ http # <<>>
    /\ http.id = 2
    /\ Len(http.log) = 3
    /\ http.log[1].status = "429"
    /\ http.log[2].status = "500"
    /\ limiter.returned = 2

----------------------------------------------------------------------------
\* Properties of the run-interval guard (specification SpecGuard)

\* the invocation answered last
Answer == handler.response[1]

\* the guard applies to the invocation answered last: not forced, a minimum
\* interval above 0, and an earlier run that was started
Guarded ==
    /\ handler.response # <<>>
    /\ ~Answer.force_run
    /\ get_min_run_interval_minutes(handler.setting) > 0
    /\ Answer.last_recorded # <<>>

\* C30 as claimed: a non-forced invocation that arrives less than
\* min_interval_minutes after the start or completion recorded for the most
\* recent started run is answered 'skipped' and starts no run; an invocation
\* with force=true that loads its configuration starts a run.
C30_SkippedByArrival ==
    /\ (Guarded /\ Answer.arrived_at - Answer.last_recorded[1]
                      < get_min_run_interval_minutes(handler.setting) * Minute)
          => Answer.status = "skipped" /\ ~Answer.run_started
    /\ (handler.response # <<>> /\ Answer.force_run /\ Answer.now_utc # <<>>)
          => Answer.run_started

\* C30 amended: a non-forced invocation that reaches the guard (its
\* configuration loads) and whose now_utc, read after the setup, is less than
\* min_interval_minutes after the start or completion recorded for the most
\* recent started run, a failed one included, is answered 'skipped' and starts
\* no run; one that fails before the guard is answered 'error' and starts no
\* run; an invocation with force=true that reaches the guard starts a run.
C30_SkippedByGuardTime ==
    /\ (Guarded /\ Answer.now_utc # <<>>)
          => (Answer.now_utc[1] - Answer.last_recorded[1]
                 < get_min_run_interval_minutes(handler.setting) * Minute
              => Answer.status = "skipped" /\ ~Answer.run_started)
    /\ (Guarded /\ Answer.now_utc = <<>>)
          => Answer.status = "error" /\ ~Answer.run_started
    /\ (handler.response # <<>> /\ Answer.force_run /\ Answer.now_utc # <<>>)
          => Answer.run_started

\* C30 witness: the third invocation, not forced, came after a run that had
\* started and not completed, with the cache file behind the process memory,
\* and was answered 'skipped'; the two invocations before it had started runs.
C30_Witness ==
    /\ Guarded
    /\ Answer.invocation = 3
    /\ Answer.status = "skipped"
    /\ handler.starts = 2
    /\ handler.last_started[1].completion = <<>>
    /\ handler.last_run_cache # handler.last_run_memory

====
